---- MODULE Spec2Model ----
(***************************************************************************)
(* A model of Anvil (src/anvil.py): the package index and its URL          *)
(* normalization, the build-plan detector, the diagnostics analyzer, the   *)
(* guarded recursive deletion, housekeeping, linking and forge.            *)
(*                                                                         *)
(* Text is modelled as a sequence of one-character strings, so that the    *)
(* string operations of the code (startswith, split, rstrip, lower,        *)
(* urlparse) are computed and not assumed.                                 *)
(***************************************************************************)
EXTENDS Integers, Sequences, FiniteSets, TLC

VARIABLES
    uq,      \* SpecUrl: the two URL texts under comparison and how they were written
    un,      \* SpecUrl: their normalized forms, <<>> before normalize_url ran
    db,      \* the repositories table of index.db: name -> [url, norm, description]
    ixlast,  \* the last call made on the index and how it ended
    stderr,  \* SpecDiag: the captured stderr text, a sequence of tokens
    suggs,   \* SpecDiag: [ran, out]: what detect_lnk_and_pic_issues returned
    srcdir,  \* SpecDetect: the source directory handed to AutoBuilder.detect
    plan,    \* SpecDetect: [ran, out]: what AutoBuilder.detect returned
    fs,      \* the filesystem: canonical path -> node
    last,    \* the last filesystem operation: its arguments, the filesystem
             \* it started from and how it ended
    calls,   \* how many operations have run
    os_name  \* os.name of the platform the program runs on

urlVars == <<uq, un>>

ixVars == <<db, ixlast>>

diagVars == <<stderr, suggs>>

detVars == <<srcdir, plan>>

fsVars == <<fs, last, calls, os_name>>

vars == <<uq, un, db, ixlast, stderr, suggs, srcdir, plan, fs, last, calls, os_name>>

(***************************************************************************)
(* Text helpers (Python str methods).                                      *)
(***************************************************************************)
Lowers == <<"a","b","c","d","e","f","g","h","i","j","k","l","m",
            "n","o","p","q","r","s","t","u","v","w","x","y","z">>

Uppers == <<"A","B","C","D","E","F","G","H","I","J","K","L","M",
            "N","O","P","Q","R","S","T","U","V","W","X","Y","Z">>

Digits == {"0","1","2","3","4","5","6","7","8","9"}

IsAlpha(c) == \E i \in 1..26 : Lowers[i] = c \/ Uppers[i] = c

LowerChar(c) ==
    IF \E i \in 1..26 : Uppers[i] = c
    THEN Lowers[CHOOSE i \in 1..26 : Uppers[i] = c]
    ELSE c

UpperChar(c) ==
    IF \E i \in 1..26 : Lowers[i] = c
    THEN Uppers[CHOOSE i \in 1..26 : Lowers[i] = c]
    ELSE c

\* a local variable: v is computed once and F reads the value
Let(v, F(_)) == CHOOSE r \in {F(x) : x \in {v}} : TRUE

\* str.lower()
Lower(s) == Let(s, LAMBDA t : [i \in 1..Len(t) |-> LowerChar(t[i])])

\* str.upper()
Upper(s) == Let(s, LAMBDA t : [i \in 1..Len(t) |-> UpperChar(t[i])])

\* str.startswith(p)
StartsWith(s, p) == Let(s, LAMBDA t : Len(t) >= Len(p) /\ SubSeq(t, 1, Len(p)) = p)

\* str.endswith(p)
EndsWith(s, p) ==
    Let(s, LAMBDA t : Len(t) >= Len(p) /\ SubSeq(t, Len(t) - Len(p) + 1, Len(t)) = p)

\* str.find(c) for a single character, 1-based; 0 when absent
Find(s, c) ==
    Let(s, LAMBDA t :
        IF \E i \in 1..Len(t) : t[i] = c
        THEN CHOOSE i \in 1..Len(t) : t[i] = c /\ \A j \in 1..(i-1) : t[j] # c
        ELSE 0)

\* str.rfind(c) for a single character, 1-based; 0 when absent
RFind(s, c) ==
    Let(s, LAMBDA t :
        IF \E i \in 1..Len(t) : t[i] = c
        THEN CHOOSE i \in 1..Len(t) : t[i] = c /\ \A j \in (i+1)..Len(t) : t[j] # c
        ELSE 0)

\* the text before / after position i (the character at i dropped)
Before(s, i) == SubSeq(s, 1, i - 1)

After(s, i) == Let(s, LAMBDA t : SubSeq(t, i + 1, Len(t)))

\* str.rstrip(c)
RECURSIVE RStrip(_, _)
RStrip(s, c) ==
    Let(s, LAMBDA t :
        IF Len(t) > 0 /\ t[Len(t)] = c THEN RStrip(SubSeq(t, 1, Len(t) - 1), c) ELSE t)

\* str.lstrip(c)
RECURSIVE LStrip(_, _)
LStrip(s, c) ==
    Let(s, LAMBDA t : IF Len(t) > 0 /\ t[1] = c THEN LStrip(Tail(t), c) ELSE t)

\* str.strip(): the only whitespace of the model's alphabet is the blank
Strip(s) == RStrip(LStrip(s, " "), " ")

\* the pieces of text the code names
GitAt == <<"g","i","t","@">>

SshScheme == <<"s","s","h",":","/","/">>

HttpsScheme == <<"h","t","t","p","s",":","/","/">>

HttpScheme == <<"h","t","t","p",":","/","/">>

DotGit == <<".","g","i","t">>

(***************************************************************************)
(* urllib.parse.urlparse, as far as normalize_url reads it: scheme,        *)
(* netloc, path and hostname.                                              *)
(***************************************************************************)
SchemeChars == {Lowers[i] : i \in 1..26} \cup {Uppers[i] : i \in 1..26}
                 \cup Digits \cup {"+", "-", "."}

\* the first position of s holding one of the characters cs; Len(s)+1 when none
FirstOf(s, cs) ==
    Let(s, LAMBDA t :
        IF \E i \in 1..Len(t) : t[i] \in cs
        THEN CHOOSE i \in 1..Len(t) : t[i] \in cs /\ \A j \in 1..(i-1) : t[j] \notin cs
        ELSE Len(t) + 1)

\* the scheme of a URL text and what follows its colon: [scheme, rest]
SplitScheme(url) ==
    Let(Find(url, ":"), LAMBDA i :
        IF i > 1 /\ IsAlpha(url[1]) /\ \A j \in 1..(i-1) : url[j] \in SchemeChars
        THEN [scheme |-> Lower(Before(url, i)), rest |-> After(url, i)]
        ELSE [scheme |-> <<>>, rest |-> url])

\* the netloc of what follows the scheme, and what follows it: [netloc, tail]
SplitNetloc(rest) ==
    IF StartsWith(rest, <<"/","/">>)
    THEN Let(SubSeq(rest, 3, Len(rest)), LAMBDA body :
         Let(FirstOf(body, {"/", "?", "#"}), LAMBDA cut :
             [netloc |-> SubSeq(body, 1, cut - 1), tail |-> SubSeq(body, cut, Len(body))]))
    ELSE [netloc |-> <<>>, tail |-> rest]

UrlParse(url) ==
    Let(url, LAMBDA u :
    Let(SplitScheme(u), LAMBDA s :
    Let(SplitNetloc(s.rest), LAMBDA n :
        [scheme |-> s.scheme, netloc |-> n.netloc,
         path |-> SubSeq(n.tail, 1, FirstOf(n.tail, {"?", "#"}) - 1)])))

\* ParseResult.hostname: the netloc after its last '@', before its ':',
\* lower-cased; empty stands for None
Hostname(netloc) ==
    Let(RFind(netloc, "@"), LAMBDA at :
    Let(IF at > 0 THEN After(netloc, at) ELSE netloc, LAMBDA hostinfo :
    Let(Find(hostinfo, ":"), LAMBDA colon :
        Lower(IF colon > 0 THEN Before(hostinfo, colon) ELSE hostinfo))))

(***************************************************************************)
(* RepoIndex.normalize_url                                                 *)
(***************************************************************************)
\* ssh style: git@host:user/repo.git
ScpRewrite(url) ==
    IF StartsWith(url, GitAt)
    THEN Let(Find(url, ":"), LAMBDA colon :
         IF colon = 0
         THEN url   \* the unpacking of split(':', 1) raises ValueError: unchanged
         ELSE Let(Before(url, colon), LAMBDA userHost :
                  HttpsScheme \o After(userHost, Find(userHost, "@"))
                      \o <<"/">> \o After(url, colon)))
    ELSE url

SshRewrite(url) ==
    IF StartsWith(url, SshScheme)
    THEN Let(UrlParse(url), LAMBDA parsed :
         Let(Hostname(parsed.netloc), LAMBDA hn :
             HttpsScheme \o (IF hn # <<>> THEN hn ELSE parsed.netloc) \o parsed.path))
    ELSE url

StripDotGitNever(path) == path

\* strip .git suffix
StripDotGit(path) ==
    Let(path, LAMBDA p : IF EndsWith(p, DotGit) THEN SubSeq(p, 1, Len(p) - 4) ELSE p)

HttpRewrite(url) ==
    Let(UrlParse(url), LAMBDA parsed :
        IF parsed.scheme \in {<<"h","t","t","p">>, <<"h","t","t","p","s">>}
             /\ parsed.netloc # <<>>
        THEN HttpsScheme \o Lower(parsed.netloc)
               \o StripDotGit(RStrip(parsed.path, "/"))
        ELSE url)

NormalizeUrl(url) ==
    IF url = <<>> THEN url
    ELSE Let(Strip(url), LAMBDA u0 :
         Let(ScpRewrite(u0), LAMBDA u1 :
         Let(SshRewrite(u1), LAMBDA u2 :
         Let(HttpRewrite(u2), LAMBDA u3 :
             Lower(IF EndsWith(u3, <<"/">>) THEN SubSeq(u3, 1, Len(u3) - 1) ELSE u3)))))

(***************************************************************************)
(* RepoIndex: the repositories table, has_url and add_local.               *)
(***************************************************************************)
SeedUrl == <<"h","t","t","p","s",":","/","/","g","i","t","h","u","b",".","c","o","m","/","s","y","c","o","m","i","x","/","a","n","v","i","l","-","c","o","r","e",".","g","i","t">>

SeedName == <<"a","n","v","i","l","-","c","o","r","e">>

\* _create_bootstrap_db: the table with its one seed record
BootstrapDb ==
    [n \in {SeedName} |->
        [url |-> SeedUrl, norm |-> NormalizeUrl(SeedUrl), description |-> "Anvil Core"]]

\* the names and URL texts the index is called with
IndexNames == {SeedName, <<"r">>, <<"x">>}

IndexUrls == {
    <<>>,
    SeedUrl,
    <<"h","t","t","p","s",":","/","/","g","i","t","h","u","b",".","c","o","m","/","s","y","c","o","m","i","x","/","a","n","v","i","l","-","c","o","r","e">>,
    <<"g","i","t","@","g","i","t","h","u","b",".","c","o","m",":","s","y","c","o","m","i","x","/","a","n","v","i","l","-","c","o","r","e",".","g","i","t">>,
    <<"h","t","t","p","s",":","/","/","g","i","t","h","u","b",".","c","o","m","/","s","y","c","o","m","i","x","/","a","n","v","i","l","-","c","o","r","e",".","g","i","t",".","g","i","t">>,
    <<"G","I","T","@","g","i","t","h","u","b",".","c","o","m",":","s","y","c","o","m","i","x","/","a","n","v","i","l","-","c","o","r","e">>,
    <<"g","i","t","@","g","h",".","i","o",":","o","/","r",".","g","i","t">>,
    <<"h","t","t","p","s",":","/","/","G","H",".","i","o","/","o","/","r","/">>,
    <<"h","g","@","g","h",".","i","o",":","o","/","r">>,
    <<"h","t","t","p","s",":","/","/","g","h",".","i","o","/","o","/","r",".","g","i","t",".","g","i","t">> }

\* normalize_url on the texts the index meets, computed once
NormMemo ==
    [u \in IndexUrls \cup {NormalizeUrl(v) : v \in IndexUrls} |-> NormalizeUrl(u)]

Norm(url) ==
    Let(url, LAMBDA u : IF u \in DOMAIN NormMemo THEN NormMemo[u] ELSE NormalizeUrl(u))

\* has_url: normalize the query, scan every row
HasUrl(table, url) ==
    IF url = <<>> THEN FALSE
    ELSE Let(Norm(url), LAMBDA normalized :
             \E n \in DOMAIN table :
                \/ table[n].norm # <<>> /\ table[n].norm = normalized
                \/ table[n].url # <<>> /\ Norm(table[n].url) = normalized)

\* InsertOrReplace that empties the table before it inserts
InsertIntoEmptied(table, name, row) == [n \in {name} |-> row]

\* INSERT OR REPLACE INTO repositories: name is the primary key
InsertOrReplace(table, name, row) ==
    [n \in DOMAIN table \cup {name} |-> IF n = name THEN row ELSE table[n]]

\* how add_local(name, url) ends: "raised" (ValueError), "present" (early
\* return) or "inserted"
AddLocalOutcome(table, url) ==
    IF url = <<>> THEN "raised"
    ELSE IF HasUrl(table, Norm(url)) THEN "present"
    ELSE "inserted"

AddLocalTable(table, name, url) ==
    IF AddLocalOutcome(table, url) = "inserted"
    THEN InsertOrReplace(table, name,
             [url |-> url, norm |-> Norm(url), description |-> "User added"])
    ELSE table

(***************************************************************************)
(* detect_lnk_and_pic_issues.  The stderr text is a sequence of tokens:    *)
(* the words the code searches for, and quoted values value 'TAG_Rest'.    *)
(***************************************************************************)
Value(tag) == [kind |-> "value", tag |-> tag]

Word(w) == [kind |-> "word", tag |-> w]

IsUpperTag(tag) == Len(tag) > 0 /\ \A i \in 1..Len(tag) : \E k \in 1..26 : Uppers[k] = tag[i]

\* 'w' in text
InText(text, w) == \E i \in 1..Len(text) : text[i].kind = "word" /\ text[i].tag = w

\* re.search(r"value '([A-Z]+)_.*?' doesn't match value '([A-Z]+)_.*?'", text):
\* the positions where the pattern matches
MismatchAt(text) ==
    { i \in 1..(Len(text) - 2) :
        /\ text[i].kind = "value" /\ IsUpperTag(text[i].tag)
        /\ text[i+1].kind = "word" /\ text[i+1].tag = "doesn't match"
        /\ text[i+2].kind = "value" /\ IsUpperTag(text[i+2].tag) }

FirstMismatch(text) == CHOOSE i \in MismatchAt(text) : \A j \in MismatchAt(text) : i <= j

Sugg(id, args) == [id |-> id, args |-> args]

\* if 'LNK2038' in text and 'RuntimeLibrary' in text
LnkGuard(text) == InText(text, "LNK2038") /\ InText(text, "RuntimeLibrary")

LnkSuggestions(text) ==
    IF LnkGuard(text)
    THEN (IF MismatchAt(text) # {}
          THEN << Sugg("Detected MSVC runtime mismatch between",
                       <<text[FirstMismatch(text)].tag, text[FirstMismatch(text) + 2].tag>>) >>
          ELSE <<>>)
         \o << Sugg("Fix options to try:", <<>>),
                Sugg(" - Set environment variable ANVIL_MSVC_RUNTIME", <<>>),
                Sugg(" - For per-formula control, add 'msvc_runtime'", <<>>),
                Sugg(" - For CMake projects, add '-DCMAKE_MSVC_RUNTIME_LIBRARY'", <<>>) >>
    ELSE <<>>

PicSuggestions(text) ==
    IF InText(text, "recompile with -fPIC")
         \/ (InText(text, "relocation") /\ InText(text, "R_X86_64"))
    THEN << Sugg("Detected link-time relocation errors suggesting -fPIC", <<>>),
            Sugg("Fix options to try:", <<>>),
            Sugg(" - Set environment variable ANVIL_FORCE_PIC=1", <<>>),
            Sugg(" - Add 'force_pic': true to the project's anvil.json", <<>>) >>
    ELSE <<>>

DetectLnkAndPicIssues(text) ==
    IF text = <<>> THEN <<>> ELSE LnkSuggestions(text) \o PicSuggestions(text)

(***************************************************************************)
(* AutoBuilder.detect.  A source directory is the set of marker entries    *)
(* present at its top level, plus what detect reads inside them: the       *)
(* manifest document, whether a makefile has an install: target, whether a *)
(* make program is on PATH, and the kind of the Cargo package.             *)
(***************************************************************************)
MakeMarkers == {"Makefile", "GNUmakefile", "makefile"}

\* the archive extensions, in the order detect tries them
ArchiveExts == <<".tar.xz", ".7z", ".tar.bz2", ".tar.gz", ".tgz", ".tar", ".zip">>

ArchiveMarkers == {ArchiveExts[i] : i \in 1..Len(ArchiveExts)}

Markers ==
    {"anvil.json", "setup.py", "requirements.txt", "configure"} \cup MakeMarkers
      \cup {"CMakeLists.txt", "Cargo.toml", "go.mod", "main.go", "*.go", "cmd/*.go",
            "package.json", "pyproject.toml", "build.ninja", "meson.build", "*.gemspec",
            "Package.swift", "SConstruct", "build.gradle", "gradlew", "WORKSPACE",
            "BUILD", "*.csproj", "build.zig", "zig.toml", "pom.xml", ".hg", ".svn"}
      \cup ArchiveMarkers

Shell(cmd) == [kind |-> "shell", cmd |-> cmd]

Native(fn) == [kind |-> "native", cmd |-> fn]

ManifestDoc(common, binaries, deps, runtime, pic) ==
    [ok |-> TRUE, common |-> common, binaries |-> binaries,
     build_dependencies |-> deps, msvc_runtime |-> runtime, force_pic |-> pic]

\* an anvil.json that json.load rejects (and the value when there is none)
Unparsable == [ok |-> FALSE]

NoMetadata == [set |-> FALSE, msvc_runtime |-> "None", force_pic |-> "None"]

Returned(steps, binaries, metadata) ==
    [raised |-> FALSE, steps |-> steps, binaries |-> binaries, metadata |-> metadata,
     installed |-> <<>>]

\* json.load or the package manager failed: the exception leaves detect
Raised == [raised |-> TRUE, steps |-> <<>>, binaries |-> <<>>, metadata |-> NoMetadata,
           installed |-> <<>>]

\* 1. the explicit anvil.json
DetectManifest(d) ==
    IF ~d.manifest.ok THEN Raised
    ELSE IF d.manifest.build_dependencies # <<>> /\ ~d.pkg_ok THEN Raised
    ELSE [Returned(d.manifest.common, d.manifest.binaries,
                   [set |-> TRUE, msvc_runtime |-> d.manifest.msvc_runtime,
                    force_pic |-> d.manifest.force_pic])
            EXCEPT !.installed = d.manifest.build_dependencies]

\* Makefile variants (GNUmakefile, Makefile, makefile)
DetectMake(d) ==
    LET make == Shell(IF d.make_bin = "nmake" THEN "nmake " ELSE "make -j{jobs}")
    IN IF d.make_bin = "none" THEN Returned(<<>>, <<>>, NoMetadata)
       ELSE IF d.install_target
            THEN Returned(<<make,
                            Shell("{make_bin} install PREFIX=\"{install_prefix}\""),
                            Shell("{make_bin} install DESTDIR=\"{install_prefix}\"")>>,
                          <<>>, NoMetadata)
            ELSE IF "go.mod" \in d.markers
                 THEN Returned(<<make, Shell("go build -o \"{install_prefix}/bin/{name}\" ./...")>>,
                               <<d.name>>, NoMetadata)
                 ELSE Returned(<<make, Native("AutoBuilder._copy_build_bins")>>,
                               <<>>, NoMetadata)

DetectCMake(d) ==
    Returned(<<Shell("mkdir -p build"),
               Shell(IF d.os = "nt"
                     THEN IF d.msvc_env = "MT"
                          THEN "cd build && cmake .. -DCMAKE_INSTALL_PREFIX={install_prefix} -DCMAKE_MSVC_RUNTIME_LIBRARY=MultiThreaded -A x64"
                          ELSE "cd build && cmake .. -DCMAKE_INSTALL_PREFIX={install_prefix} -DCMAKE_MSVC_RUNTIME_LIBRARY=MultiThreadedDLL -A x64"
                     ELSE "cd build && cmake .. -DCMAKE_INSTALL_PREFIX={install_prefix}"),
               Shell("cd build && make -j{jobs}"),
               Shell("cd build && make install")>>, <<>>, NoMetadata)

DetectCargo(d) ==
    IF d.cargo = "virtual"
    THEN Returned(<<Shell("cargo build --release"), Native("AutoBuilder._copy_cargo_bins"),
                    Native("AutoBuilder._copy_cargo_libs")>>, <<>>, NoMetadata)
    ELSE IF d.cargo = "bin"
         THEN Returned(<<Shell("cargo install --path . --root {install_prefix}")>>,
                       <<>>, NoMetadata)
         ELSE Returned(<<Shell("cargo build --release"),
                         Native("AutoBuilder._copy_cargo_libs")>>, <<>>, NoMetadata)

DetectGo(d) ==
    IF "main.go" \in d.markers \/ "cmd/*.go" \in d.markers
    THEN Returned(<<Shell("go build -o \"{install_prefix}/bin/{name}\"")>>,
                  <<d.name>>, NoMetadata)
    ELSE Returned(<<>>, <<>>, NoMetadata)

\* the first archive extension of the list with a file in the directory
FirstArchive(d) ==
    ArchiveExts[CHOOSE i \in 1..Len(ArchiveExts) :
                   /\ ArchiveExts[i] \in d.markers
                   /\ \A j \in 1..(i-1) : ArchiveExts[j] \notin d.markers]

DetectArchive(d) ==
    IF FirstArchive(d) = ".zip"
    THEN Returned(<<Shell("unzip -o {file} -d {install_prefix}")>>, <<>>, NoMetadata)
    ELSE Returned(<<[kind |-> "shell", cmd |-> "tar -xf {file} -C {install_prefix}",
                     file |-> FirstArchive(d)]>>, <<>>, NoMetadata)

Pip == Shell("{sys.executable} -m pip install . --target {install_prefix} --upgrade")

\* the second chain of detect: CMakeLists.txt and after
DetectRest(d) ==
    LET has(f) == f \in d.markers
    IN IF has("CMakeLists.txt") THEN DetectCMake(d)
       ELSE IF has("Cargo.toml") THEN DetectCargo(d)
       ELSE IF has("go.mod") \/ has("main.go") \/ has("*.go") THEN DetectGo(d)
       ELSE IF has("package.json")
            THEN Returned(<<Shell("npm install"), Shell("npm run build || true")>>,
                          <<>>, NoMetadata)
       ELSE IF has("pyproject.toml") THEN Returned(<<Pip>>, <<>>, NoMetadata)
       ELSE IF has("build.ninja")
            THEN Returned(<<Shell("ninja -j{jobs}"), Shell("ninja install || true")>>,
                          <<>>, NoMetadata)
       ELSE IF has("meson.build")
            THEN Returned(<<Shell("meson setup build"), Shell("ninja -C build"),
                            Shell("ninja -C build install --destdir={install_prefix} || true")>>,
                          <<>>, NoMetadata)
       ELSE IF has("*.gemspec")
            THEN Returned(<<Shell("gem build {gem.name}"),
                            Shell("gem install *.gem --install-dir {install_prefix} --bindir {install_prefix}/bin --no-document")>>,
                          <<>>, NoMetadata)
       ELSE IF has("Package.swift")
            THEN Returned(<<Shell("swift build -c release"),
                            Native("AutoBuilder._copy_swift_artifacts")>>, <<>>, NoMetadata)
       ELSE IF has("SConstruct")
            THEN Returned(<<Shell("scons PREFIX={install_prefix}"),
                            Shell("scons install PREFIX={install_prefix} || true")>>,
                          <<>>, NoMetadata)
       ELSE IF has("build.gradle") \/ has("gradlew")
            THEN Returned(<<Shell(IF has("gradlew") THEN "./gradlew build" ELSE "gradle build"),
                            Native("AutoBuilder._copy_gradle_artifacts")>>, <<>>, NoMetadata)
       ELSE IF has("WORKSPACE") \/ has("BUILD")
            THEN Returned(<<Shell("bazel build //..."),
                            Native("AutoBuilder._copy_bazel_artifacts")>>, <<>>, NoMetadata)
       ELSE IF has("*.csproj")
            THEN Returned(<<Shell("dotnet publish -c Release -o {install_prefix}")>>,
                          <<>>, NoMetadata)
       ELSE IF has("build.zig") \/ has("zig.toml")
            THEN Returned(<<Shell("zig build -Drelease-safe"),
                            Native("AutoBuilder._copy_zig_artifacts")>>, <<>>, NoMetadata)
       ELSE IF has("pom.xml")
            THEN Returned(<<Shell("mvn package"),
                            Native("AutoBuilder._copy_maven_artifacts")>>, <<>>, NoMetadata)
       ELSE IF d.markers \cap ArchiveMarkers # {} THEN DetectArchive(d)
       ELSE IF has(".hg")
            THEN Returned(<<Shell("hg pull"), Shell("hg update")>>, <<>>, NoMetadata)
       ELSE IF has(".svn") THEN Returned(<<Shell("svn update")>>, <<>>, NoMetadata)
       ELSE Returned(<<Native("AutoBuilder._copy_all")>>, <<>>, NoMetadata)

DetectMakeFirst(d) ==
    LET has(f) == f \in d.markers
    IN IF d.markers \cap MakeMarkers # {} THEN DetectMake(d)
       ELSE IF has("anvil.json") THEN DetectManifest(d)
       ELSE IF has("setup.py") THEN Returned(<<Pip>>, <<>>, NoMetadata)
       ELSE IF has("requirements.txt")
            THEN Returned(<<Shell("{sys.executable} -m pip install -r requirements.txt --target {install_prefix}")>>,
                          <<>>, NoMetadata)
       ELSE IF has("configure")
            THEN Returned(<<Shell("./configure --prefix=\"{install_prefix}\""),
                            Shell("make -j{jobs}"), Shell("make install")>>, <<>>, NoMetadata)
       ELSE DetectRest(d)

\* AutoBuilder.detect(source_path, install_prefix)
Detect(d) ==
    LET has(f) == f \in d.markers
    IN IF has("anvil.json") THEN DetectManifest(d)
       ELSE IF has("setup.py") THEN Returned(<<Pip>>, <<>>, NoMetadata)
       ELSE IF has("requirements.txt")
            THEN Returned(<<Shell("{sys.executable} -m pip install -r requirements.txt --target {install_prefix}")>>,
                          <<>>, NoMetadata)
       ELSE IF has("configure")
            THEN Returned(<<Shell("./configure --prefix=\"{install_prefix}\""),
                            Shell("make -j{jobs}"), Shell("make install")>>, <<>>, NoMetadata)
       ELSE IF d.markers \cap MakeMarkers # {} THEN DetectMake(d)
       ELSE DetectRest(d)

(***************************************************************************)
(* The filesystem.  A name is its text (a sequence of characters), a path  *)
(* a sequence of names from the filesystem root; the filesystem maps the   *)
(* canonical path of every entry to its node.                              *)
(***************************************************************************)
ROOT == <<>>

DotDot == <<".", ".">>

HOME == << <<"h", "o", "m", "e">>, <<"u">> >>

ANVIL_ROOT == HOME \o << <<".", "a", "n", "v", "i", "l">> >>

INDEX_DIR == ANVIL_ROOT \o << <<"i", "n", "d", "e", "x">> >>

BUILD_DIR == ANVIL_ROOT \o << <<"b", "u", "i", "l", "d">> >>

INSTALL_DIR == ANVIL_ROOT \o << <<"o", "p", "t">> >>

BIN_DIR == ANVIL_ROOT \o << <<"b", "i", "n">> >>

NoDoc == [ok |-> FALSE]

Dir == [kind |-> "dir", to |-> <<>>, exec |-> FALSE, doc |-> NoDoc]

File(exec, doc) == [kind |-> "file", to |-> <<>>, exec |-> exec, doc |-> doc]

Link(target) == [kind |-> "link", to |-> target, exec |-> FALSE, doc |-> NoDoc]

Parent(p) == IF p = <<>> THEN p ELSE SubSeq(p, 1, Len(p) - 1)

Name(p) == IF p = <<>> THEN <<>> ELSE p[Len(p)]

IsUnder(p, q) == Len(q) >= Len(p) /\ SubSeq(q, 1, Len(p)) = p

\* Path.iterdir
Children(f, p) == {q \in DOMAIN f : Len(q) = Len(p) + 1 /\ IsUnder(p, q)}

Below(f, p) == {q \in DOMAIN f : Len(q) > Len(p) /\ IsUnder(p, q)}

Without(f, gone) == [q \in DOMAIN f \ gone |-> f[q]]

With(f, p, node) == [q \in DOMAIN f \cup {p} |-> IF q = p THEN node ELSE f[q]]

NoEntry == [ok |-> FALSE, at |-> <<>>]

RECURSIVE Walk(_, _, _, _)
\* the kernel's path walk from the directory cur along the components rest;
\* the last component's symbolic link is followed iff follow
Walk(f, cur, rest, follow) ==
    IF rest = <<>> THEN [ok |-> TRUE, at |-> cur]
    ELSE LET c == Head(rest)
             more == Tail(rest)
             nxt == cur \o <<c>>
         IN IF c = DotDot THEN Walk(f, Parent(cur), more, follow)
            ELSE IF nxt \notin DOMAIN f THEN NoEntry
            ELSE IF f[nxt].kind = "link" /\ (more # <<>> \/ follow)
                 THEN IF f[nxt].to \notin DOMAIN f THEN NoEntry
                      ELSE IF more # <<>> /\ f[f[nxt].to].kind # "dir" THEN NoEntry
                      ELSE Walk(f, f[nxt].to, more, follow)
            ELSE IF more # <<>> /\ f[nxt].kind # "dir" THEN NoEntry
            ELSE Walk(f, nxt, more, follow)

\* os.stat: follows a final symbolic link
Stat(f, raw) == Walk(f, ROOT, raw, TRUE)

\* os.lstat
LStat(f, raw) == Walk(f, ROOT, raw, FALSE)

\* Path.exists
Exists(f, raw) == Stat(f, raw).ok

\* Path.is_dir, Path.is_file: both follow symbolic links
IsDir(f, raw) == Stat(f, raw).ok /\ f[Stat(f, raw).at].kind = "dir"

IsFile(f, raw) == Stat(f, raw).ok /\ f[Stat(f, raw).at].kind = "file"

\* Path.resolve of a path that exists
Resolve(f, raw) == Stat(f, raw).at

\* Path.unlink of something that is not a directory
Unlink(f, raw) == Without(f, {LStat(f, raw).at})

(***************************************************************************)
(* safe_rmtree                                                             *)
(***************************************************************************)
Retries == 3

\* the safety guard: the resolved path against the three it must never remove
DangerousUnresolved(f, raw) == raw \in {ANVIL_ROOT, HOME, ROOT}

Dangerous(f, raw) == Resolve(f, raw) \in {ANVIL_ROOT, HOME, ROOT}

\* what the caller may do with the entry the path names: everything, write
\* but not read (mode 0300), or nothing (mode 0000, not the superuser)
Perms == {"rwx", "wo", "none"}

\* _on_rm_error for the os.open that rmtree could not do: with write access
\* the error is raised again; without it the mode is changed and
\* func(path) is called, which for os.open lacks the flags argument
OnRmErrorOpen(perm) == IF perm = "wo" THEN "OSError" ELSE "TypeError"

\* shutil.rmtree(path, onerror=_on_rm_error): [f, err]; it refuses a
\* symbolic link, fails on a file, and otherwise removes everything below the
\* directory and then the directory itself by the path it was given
RmtreeOnce(f, raw, perm) ==
    LET l == LStat(f, raw)
    IN IF ~l.ok THEN [f |-> f, err |-> "handled"]
       ELSE IF perm # "rwx" THEN [f |-> f, err |-> OnRmErrorOpen(perm)]
       ELSE IF f[l.at].kind = "link" THEN [f |-> f, err |-> "OSError"]
       ELSE IF f[l.at].kind = "file" THEN [f |-> f, err |-> "OSError"]
       ELSE LET emptied == Without(f, Below(f, l.at))
                again == LStat(emptied, raw)
            IN IF again.ok /\ Name(raw) # DotDot /\ again.at # ROOT
               THEN [f |-> Without(emptied, {again.at}), err |-> "none"]
               ELSE [f |-> emptied, err |-> "OSError"]

RECURSIVE RmtreeLoop(_, _, _, _)
\* the retry loop: up to Retries attempts, until one raises nothing; only
\* OSError is caught
RmtreeLoop(f, raw, attempt, perm) ==
    IF attempt >= Retries THEN [f |-> f, outcome |-> "gave up", attempts |-> attempt]
    ELSE LET r == RmtreeOnce(f, raw, perm)
         IN IF r.err = "OSError" THEN RmtreeLoop(r.f, raw, attempt + 1, perm)
            ELSE IF r.err = "TypeError"
            THEN [f |-> r.f, outcome |-> "raised", attempts |-> attempt + 1]
            ELSE [f |-> r.f, outcome |-> "removed", attempts |-> attempt + 1]

\* safe_rmtree(path) by a caller with the given access to the entry:
\* [f, outcome, attempts]
SafeRmtreeAs(f, raw, perm) ==
    IF ~Exists(f, raw) THEN [f |-> f, outcome |-> "absent", attempts |-> 0]
    ELSE IF Dangerous(f, raw) THEN [f |-> f, outcome |-> "refused", attempts |-> 0]
    ELSE RmtreeLoop(f, raw, 0, perm)

\* safe_rmtree(path) of an entry the caller has full access to
SafeRmtree(f, raw) == SafeRmtreeAs(f, raw, "rwx")

(***************************************************************************)
(* Anvil.__init__                                                          *)
(***************************************************************************)
Prefixes(p) == {SubSeq(p, 1, n) : n \in 0..Len(p)}

AnvilDirs == {ANVIL_ROOT, BUILD_DIR, INSTALL_DIR, BIN_DIR, INDEX_DIR}

\* Anvil._setup_dirs: mkdir(parents=True, exist_ok=True) of the five directories
SetupDirs(f) ==
    LET made == UNION {Prefixes(d) : d \in AnvilDirs}
    IN [q \in DOMAIN f \cup made |-> IF q \in DOMAIN f THEN f[q] ELSE Dir]

(***************************************************************************)
(* Anvil.housekeeping                                                      *)
(***************************************************************************)
Dot == "."

\* Path.suffix and Path.stem: the name is cut at its last dot unless that dot
\* is its first or its last character
HasSuffix(name) == 1 < RFind(name, Dot) /\ RFind(name, Dot) < Len(name)

Suffix(name) == IF HasSuffix(name) THEN SubSeq(name, RFind(name, Dot), Len(name)) ELSE <<>>

Stem(name) == IF HasSuffix(name) THEN Before(name, RFind(name, Dot)) ELSE name

RECURSIVE ClearBuild(_, _)
\* the loop over BUILD_DIR.iterdir(): safe_rmtree for what is_dir() accepts,
\* unlink for the rest
ClearBuild(f, todo) ==
    IF todo = {} THEN f
    ELSE LET child == CHOOSE c \in todo : TRUE
             g == IF IsDir(f, child) THEN SafeRmtree(f, child).f ELSE Unlink(f, child)
         IN ClearBuild(g, todo \ {child})

\* the names of the directories under the install root
Installed(f) == {Name(q) : q \in {c \in Children(f, INSTALL_DIR) : IsDir(f, c)}}

OrphansByName(f) ==
    {b \in Children(f, BIN_DIR) : IsFile(f, b) /\ Name(b) \notin Installed(f)}

\* the entries of the shared bin directory that housekeeping unlinks
Orphans(f) ==
    {b \in Children(f, BIN_DIR) : IsFile(f, b) /\ Stem(Name(b)) \notin Installed(f)}

\* Anvil.housekeeping(), the directories being those _setup_dirs made
Housekeeping(f) ==
    LET cleared == IF Exists(f, BUILD_DIR) THEN ClearBuild(f, Children(f, BUILD_DIR)) ELSE f
    IN IF Exists(cleared, BIN_DIR) THEN Without(cleared, Orphans(cleared)) ELSE cleared

(***************************************************************************)
(* The home directories the operations are run on: the Anvil tree as       *)
(* _setup_dirs leaves it, a work directory with source directories, and up *)
(* to MaxExtras of the entries earlier runs and the user can have left.    *)
(***************************************************************************)
nx == <<"x">>

nbin == <<"b", "i", "n">>

WORK == HOME \o << <<"w">> >>

SRV == << <<"s", "r", "v">> >>

Tree(dirs, files) ==
    [q \in dirs \cup files |-> IF q \in dirs THEN Dir ELSE File(TRUE, NoDoc)]

Merge(f, g) == [q \in DOMAIN f \cup DOMAIN g |-> IF q \in DOMAIN g THEN g[q] ELSE f[q]]

One(path, node) == [q \in {path} |-> node]

ny == <<"y">>

nt == <<"t">>

ntool == <<"t", "o", "o", "l">>

ntoolbat == <<"t", "o", "o", "l", ".", "b", "a", "t">>

nxbat == <<"x", ".", "b", "a", "t">>

nmanifest == <<"a", "n", "v", "i", "l", ".", "j", "s", "o", "n">>

\* a shim as _link_binaries writes it: a batch file naming its source
Shim(src) == [kind |-> "file", to |-> src, exec |-> FALSE, doc |-> NoDoc]

\* the build step of the manifests: it makes {PREFIX}/bin and writes the
\* named files into it
WriteBins(names) == [kind |-> "shell", cmd |-> "install -D {names} {PREFIX}/bin", names |-> names]

\* the source directory x: only a manifest, binaries ["x"], one step writing bin/x
SourceX ==
    Merge(One(WORK \o <<nx>>, Dir),
          One(WORK \o <<nx, nmanifest>>,
              File(FALSE, ManifestDoc(<<WriteBins({nx})>>, <<nx>>, <<>>, "None", "None"))))

\* a manifest that also has the key "dependencies"
WithDependencies(doc, names) == [dependencies |-> names] @@ doc

\* the source directory t: its steps write bin/tool, then bin/tool.bat, and
\* its manifest lists x as a dependency
SourceT ==
    Merge(One(WORK \o <<nt>>, Dir),
          One(WORK \o <<nt, nmanifest>>,
              File(FALSE, WithDependencies(
                              ManifestDoc(<<WriteBins({ntool}), WriteBins({ntoolbat})>>,
                                          <<>>, <<>>, "None", "None"),
                              <<nx>>))))

ng == <<"g">>

RemoteG == <<"h", "t", "t", "p", "s", ":", "/", "/", "g", "h", ".", "i", "o", "/", "o", "/", "g", ".", "g", "i", "t">>

\* the source directory g: a git checkout with a remote, and a manifest
\* without steps
SourceG ==
    Merge(Merge(One(WORK \o <<ng>>, Dir),
                One(WORK \o <<ng, <<".", "g", "i", "t">> >>,
                    [Dir EXCEPT !.doc = [ok |-> FALSE, remote |-> RemoteG]])),
          One(WORK \o <<ng, nmanifest>>,
              File(FALSE, ManifestDoc(<<>>, <<>>, <<>>, "None", "None"))))

AnvilBase ==
    SetupDirs(Merge(Merge(Merge(Tree({ROOT, WORK}, {}), SourceX), SourceT), SourceG))

PrefixX == INSTALL_DIR \o <<nx>>

PrefixT == INSTALL_DIR \o <<nt>>

Extras ==
    {One(BUILD_DIR \o << <<"j">> >>, File(FALSE, NoDoc)),
     Tree({BUILD_DIR \o <<nx>>}, {BUILD_DIR \o <<nx, <<"j">> >>}),
     One(BUILD_DIR \o << <<"l">> >>, Link(WORK)),
     Tree({PrefixX, PrefixX \o <<nbin>>}, {PrefixX \o <<nbin, nx>>}),
     Tree({PrefixT, PrefixT \o <<nbin>>},
          {PrefixT \o <<nbin, ntool>>, PrefixT \o <<nbin, ntoolbat>>}),
     One(INSTALL_DIR \o <<ny>>, File(FALSE, NoDoc)),
     One(BIN_DIR \o <<nx>>, File(TRUE, NoDoc)),
     One(BIN_DIR \o <<nxbat>>, Shim(PrefixX \o <<nbin, nx>>)),
     One(BIN_DIR \o <<ny>>, File(TRUE, NoDoc)),
     One(BIN_DIR \o <<ntoolbat>>, Shim(PrefixT \o <<nbin, ntool>>)),
     One(BIN_DIR \o <<nt>>, Dir),
     One(BIN_DIR \o << <<"l">> >>, Link(WORK \o <<nx, nmanifest>>)),
     One(ANVIL_ROOT \o << <<"D", "O", "_", "N", "O", "T", "_", "D", "E", "L", "E", "T", "E">> >>,
         File(FALSE, NoDoc))}

RECURSIVE WithExtras(_, _)
\* the trees got from f by adding at most k of the extras
WithExtras(f, k) ==
    IF k = 0 THEN {f}
    ELSE LET fewer == WithExtras(f, k - 1)
         IN fewer \cup {Merge(g, e) : g \in fewer, e \in Extras}

(***************************************************************************)
(* Anvil._link_binaries                                                    *)
(***************************************************************************)
ScriptSuffixes ==
    {<<".", "e", "x", "e">>, <<".", "b", "a", "t">>, <<".", "p", "y">>, <<".", "s", "h">>}

\* os.access(f, os.X_OK): an execute bit on POSIX; every file that exists on nt
AccessX(f, q, os) == Exists(f, q) /\ (os = "nt" \/ f[Resolve(f, q)].exec)

\* 1. the common bin folders; 2. the files whose stem is an explicit name
Candidates(f, install_path, explicit, os) ==
    LET folders == {d \in {install_path \o <<nbin>>, install_path} : Exists(f, d)}
        found == UNION {{c \in Children(f, d) :
                           \/ IsFile(f, c) /\ AccessX(f, c, os)
                           \/ Suffix(Name(c)) \in ScriptSuffixes} : d \in folders}
        named == {q \in Below(f, install_path) :
                    IsFile(f, q) /\ \E i \in 1..Len(explicit) : Stem(Name(q)) = explicit[i]}
    IN found \cup named

\* the orders in which the loop over set(candidates) can meet them
Orders(set) ==
    {o \in [1..Cardinality(set) -> set] : \A i, j \in 1..Cardinality(set) : o[i] = o[j] => i = j}

RECURSIVE LinkEach(_, _, _)
\* 3. the loop: an existing destination is unlinked; on nt the shim
\* <dest>.bat is written; on POSIX nothing is written
LinkEach(f, order, os) ==
    IF order = <<>> THEN [f |-> f, raised |-> FALSE]
    ELSE LET src == Head(order)
             dest == BIN_DIR \o <<Name(src)>>
             bat == BIN_DIR \o <<Name(src) \o <<".", "b", "a", "t">> >>
         IN IF Name(src)[1] = Dot THEN LinkEach(f, Tail(order), os)
            ELSE IF Exists(f, dest) /\ f[dest].kind = "dir" /\ os = "posix"
                 THEN [f |-> f, raised |-> TRUE]
            ELSE LET g == IF Exists(f, dest) /\ f[dest].kind # "dir" THEN Unlink(f, dest)
                          ELSE f
                 IN IF os # "nt" THEN LinkEach(g, Tail(order), os)
                    ELSE IF IsDir(g, bat) THEN [f |-> g, raised |-> TRUE]
                    ELSE LinkEach(With(g, IF Exists(g, bat) THEN Resolve(g, bat) ELSE bat,
                                       Shim(src)),
                                  Tail(order), os)

(***************************************************************************)
(* Anvil.forge and what it calls: check_for_release, the source copy or    *)
(* clone, AutoBuilder.detect, the build steps, _link_binaries, the         *)
(* automatic submission.                                                   *)
(***************************************************************************)
Slash == "/"

Http == <<"h", "t", "t", "p">>

\* text.split("/")[-1] and os.path.basename(text)
LastSegment(text) == After(text, RFind(text, Slash))

RECURSIVE Remove(_, _)
\* text.replace(pat, ""): every occurrence, left to right
Remove(text, pat) ==
    IF Len(text) < Len(pat) THEN text
    ELSE IF StartsWith(text, pat) THEN Remove(SubSeq(text, Len(pat) + 1, Len(text)), pat)
    ELSE <<Head(text)>> \o Remove(Tail(text), pat)

\* url.split("/")[-1].replace(".git", "")
UrlName(url) == Remove(LastSegment(url), DotGit)

RECURSIVE SplitOn(_, _)
\* text.split(c)
SplitOn(text, c) ==
    IF Find(text, c) = 0 THEN <<text>>
    ELSE <<Before(text, Find(text, c))>> \o SplitOn(After(text, Find(text, c)), c)

\* the components pathlib keeps: no empty ones, no "."
Components(text) == SelectSeq(SplitOn(text, Slash), LAMBDA c : c # <<>> /\ c # <<Dot>>)

\* the directory the program is started in
CWD == WORK

\* the path a target text names
PathOf(text) ==
    IF text # <<>> /\ Head(text) = Slash THEN Components(text) ELSE CWD \o Components(text)

\* os.path.exists(target) and os.path.isdir(target)
IsLocalDir(f, target) == target # <<>> /\ IsDir(f, PathOf(target))

\* Path(target).name
LocalName(target) ==
    IF Components(target) = <<>> THEN <<>> ELSE Components(target)[Len(Components(target))]

\* base / name for a name without a slash
JoinName(base, name) == IF name = <<>> \/ name = <<Dot>> THEN base ELSE base \o <<name>>

\* the canonical place of a path whose parent exists
Place(f, raw) ==
    IF Exists(f, raw) THEN Resolve(f, raw) ELSE Resolve(f, Parent(raw)) \o <<Name(raw)>>

\* Path.mkdir(): FileExistsError when something is there, FileNotFoundError
\* when the parent is not
CanMkdir(f, raw) == ~LStat(f, raw).ok /\ Name(raw) # DotDot /\ IsDir(f, Parent(raw))

\* shutil.copytree / copy2 of everything in the directory src into dst
CopyInto(f, src, dst) ==
    LET from == Resolve(f, src)
        to == Resolve(f, dst)
        copied == {q \in Below(f, from) : ~IsUnder(to, q)}
        moved(q) == to \o SubSeq(q, Len(from) + 1, Len(q))
    IN [r \in DOMAIN f \cup {moved(q) : q \in copied} |->
          IF \E q \in copied : moved(q) = r
          THEN f[CHOOSE q \in copied : moved(q) = r]
          ELSE f[r]]

ndotgit == <<".", "g", "i", "t">>

\* the .git directory of a clone of url
GitDir(url) == [Dir EXCEPT !.doc = [ok |-> FALSE, remote |-> url]]

\* what `git config --get remote.origin.url` prints in a source directory
GitRemote(f, src) ==
    IF Exists(f, src \o <<ndotgit>>) /\ f[Resolve(f, src \o <<ndotgit>>)].kind = "dir"
    THEN f[Resolve(f, src \o <<ndotgit>>)].doc.remote
    ELSE <<>>

\* RepoIndex.get_url
GetUrl(table, name) == IF name \in DOMAIN table THEN table[name].url ELSE <<>>

\* how forge reads its target: a URL, a local directory, or a name of the index
Classify(f, table, target) ==
    IF StartsWith(target, Http) \/ StartsWith(target, GitAt)
    THEN [kind |-> "url", url |-> target, name |-> UrlName(target), remote |-> <<>>]
    ELSE IF IsLocalDir(f, target)
    THEN [kind |-> "local", url |-> GitRemote(f, PathOf(target)),
          name |-> LocalName(target), remote |-> GitRemote(f, PathOf(target))]
    ELSE IF GetUrl(table, target) = <<>>
    THEN [kind |-> "unknown", url |-> <<>>, name |-> <<>>, remote |-> <<>>]
    ELSE [kind |-> "index", url |-> GetUrl(table, target), name |-> target, remote |-> <<>>]

\* _normalize_github_owner_repo: a text with exactly one slash that does not
\* start with http is taken as owner/repo (the pattern for github.com URLs
\* demands a backslash, which no text here holds)
IsOwnerRepo(target) ==
    /\ Cardinality({i \in 1..Len(target) : target[i] = Slash}) = 1
    /\ ~StartsWith(target, Http)

\* the name of the asset a release offers for this platform
AssetName == <<"r", "-", "x", "6", "4">>

\* check_for_release(target): [f, found, raised]
CheckForRelease(f, target, net, os) ==
    LET name == IF IsOwnerRepo(target) THEN LastSegment(target)
                ELSE Remove(LastSegment(target), DotGit)
        install_path == JoinName(INSTALL_DIR, name)
        bin_dir == Place(f, install_path) \o <<nbin>>
    IN IF Exists(f, install_path) /\ ~IsDir(f, install_path)
       THEN [f |-> f, found |-> FALSE, raised |-> TRUE]
       ELSE IF Exists(f, install_path) /\ Children(f, Resolve(f, install_path)) # {}
       THEN [f |-> f, found |-> TRUE, raised |-> FALSE]
       ELSE IF ~IsOwnerRepo(target) \/ net # "asset"
       THEN [f |-> f, found |-> FALSE, raised |-> FALSE]
       ELSE [f |-> With(With(With(f, Place(f, install_path), Dir), bin_dir, Dir),
                        bin_dir \o <<AssetName>>, File(os # "nt", NoDoc)),
             found |-> TRUE, raised |-> FALSE]

\* what a clone of any repository brings: a manifest whose step writes
\* bin/x, and the .git directory
CloneTree(url) ==
    Merge(One(<<nmanifest>>,
              File(FALSE, ManifestDoc(<<WriteBins({nx})>>, <<nx>>, <<>>, "None", "None"))),
          One(<<ndotgit>>, GitDir(url)))

\* the spelling of the marker entries the source directories can hold
Spelled == [m \in {"anvil.json"} |-> nmanifest]

\* the source directory as detect reads it
SourceDirAt(f, source_path, os) ==
    LET at == Resolve(f, source_path)
        here == {m \in DOMAIN Spelled : at \o <<Spelled[m]>> \in DOMAIN f}
    IN [markers |-> here, name |-> Name(source_path),
        manifest |-> IF "anvil.json" \in here THEN f[at \o <<nmanifest>>].doc ELSE Unparsable,
        pkg_ok |-> TRUE, make_bin |-> "make", install_target |-> FALSE,
        cargo |-> "lib", os |-> os, msvc_env |-> ""]

\* one build step whose command succeeds.  A shell step is rendered with
\* {PREFIX} replaced by the install path and run in the build directory.
RunStep(f, step, build, prefix) ==
    IF step.kind = "native"
    THEN IF step.cmd = "AutoBuilder._copy_all" THEN CopyInto(f, build, prefix) ELSE f
    ELSE IF step.cmd = "install -D {names} {PREFIX}/bin"
    THEN LET bin_dir == Resolve(f, prefix) \o <<nbin>>
             withdir == IF bin_dir \in DOMAIN f THEN f ELSE With(f, bin_dir, Dir)
         IN [q \in DOMAIN withdir \cup {bin_dir \o <<n>> : n \in step.names} |->
                IF q \in {bin_dir \o <<n>> : n \in step.names}
                THEN File(TRUE, NoDoc) ELSE withdir[q]]
    ELSE f

RECURSIVE RunSteps(_, _, _, _, _)
\* the loop over the steps: [f, failed].  failing is the position of the
\* step whose command exits non-zero (run_cmd raises), 0 when none does; a
\* callable step runs no command.
RunSteps(f, steps, build, prefix, failing) ==
    IF steps = <<>> THEN [f |-> f, failed |-> FALSE]
    ELSE IF failing = 1 /\ Head(steps).kind = "shell" THEN [f |-> f, failed |-> TRUE]
    ELSE RunSteps(RunStep(f, Head(steps), build, prefix), Tail(steps), build, prefix,
                  failing - 1)

\* Anvil.submit: the name is the URL's last segment; add_local
Submit(table, url) == AddLocalTable(table, UrlName(url), url)

(***************************************************************************)
(* The state of each part when a specification leaves it alone.            *)
(***************************************************************************)
NoOp == [op |-> "none"]

FsIdle == fs = <<>> /\ last = NoOp /\ calls = 0 /\ os_name = "posix"

NotRun == [ran |-> FALSE, out |-> <<>>]

DetIdle == srcdir = [markers |-> {}] /\ plan = NotRun

DiagIdle == stderr = <<>> /\ suggs = NotRun

UrlIdle == uq = <<>> /\ un = <<>>

IndexIdle == db = BootstrapDb /\ ixlast = [op |-> "none"]

(***************************************************************************)
(* SpecIndex: add_local calls on the bootstrapped store.                   *)
(***************************************************************************)
IndexInit ==
    /\ db = BootstrapDb /\ ixlast = [op |-> "none"]
    /\ UrlIdle
    /\ DiagIdle
    /\ DetIdle
    /\ FsIdle

IndexFrame == <<urlVars, diagVars, detVars, fsVars>>

\* index.add_local(name, url)
AddLocal(name, url) ==
    /\ db' = AddLocalTable(db, name, url)
    /\ ixlast' = [op |-> "add_local", name |-> name, url |-> url,
                  outcome |-> AddLocalOutcome(db, url)]
    /\ UNCHANGED IndexFrame

\* Anvil.submit(url): the name is the last segment of the URL
IndexSubmit(url) ==
    /\ db' = Submit(db, url)
    /\ ixlast' = [op |-> "submit", name |-> UrlName(url), url |-> url,
                  outcome |-> AddLocalOutcome(db, url)]
    /\ UNCHANGED IndexFrame

\* the URLs submit is called with: their last segments name the records
SubmitUrls == {u \in IndexUrls : UrlName(u) \in IndexNames}

IndexNext ==
    \/ \E name \in IndexNames, url \in IndexUrls : AddLocal(name, url)
    \/ \E url \in SubmitUrls : IndexSubmit(url)

SpecIndex == IndexInit /\ [][IndexNext]_vars

\* C2: right after add_local(name, u) returns for a non-empty u, has_url(u)
\* is true, and so is has_url(v) for every v with the normalized form of u,
\* whether add_local inserted a record or returned early.
C2_HasUrlAfterAddLocal ==
    (ixlast.op = "add_local" /\ ixlast.outcome # "raised") =>
        /\ HasUrl(db, ixlast.url)
        /\ \A v \in IndexUrls :
              (v # <<>> /\ Norm(v) = Norm(ixlast.url)) => HasUrl(db, v)

(***************************************************************************)
(* SpecUrl: normalize_url applied to two ways of writing one repository.   *)
(***************************************************************************)
MaxSlashes == 1

RepoHosts == { <<"g","h",".","i","o">> }

RepoPaths == { <<"o","/","r">>, <<"r">> }

GitUser == <<"g","i","t">>

Users == { GitUser, <<"h","g">> }

Syntaxes == {"scp", "ssh", "http", "https"}

Variants ==
    { v \in [syn : Syntaxes, user : Users, git : BOOLEAN,
              slashes : 0..MaxSlashes, upper : BOOLEAN, pad : BOOLEAN] :
        v.syn \in {"http", "https"} => v.user = GitUser }

Slashes(n) == [i \in 1..n |-> "/"]

\* one repository (host, path) written in the syntax and spelling v
Render(host, path, v) ==
    LET h == IF v.upper THEN Upper(host) ELSE host
        core == path \o (IF v.git THEN DotGit ELSE <<>>) \o Slashes(v.slashes)
        text == CASE v.syn = "scp" -> v.user \o <<"@">> \o h \o <<":">> \o core
                  [] v.syn = "ssh" -> SshScheme \o v.user \o <<"@">> \o h \o <<"/">> \o core
                  [] v.syn = "http" -> HttpScheme \o h \o <<"/">> \o core
                  [] OTHER -> HttpsScheme \o h \o <<"/">> \o core
    IN IF v.pad THEN <<" ">> \o text \o <<" ">> ELSE text

UrlInit ==
    /\ uq \in { [host |-> h, path |-> p, v1 |-> a, v2 |-> b,
                  u1 |-> Render(h, p, a), u2 |-> Render(h, p, b)] :
                  h \in RepoHosts, p \in RepoPaths, a \in Variants, b \in Variants }
    /\ un = <<>>
    /\ IndexIdle
    /\ DiagIdle
    /\ DetIdle
    /\ FsIdle

\* normalize_url called on both texts
NormalizeBoth ==
    /\ un = <<>>
    /\ un' = <<NormalizeUrl(uq.u1), NormalizeUrl(uq.u2)>>
    /\ UNCHANGED uq

UrlNext == NormalizeBoth /\ UNCHANGED <<ixVars, diagVars, detVars, fsVars>>

SpecUrl == UrlInit /\ [][UrlNext]_vars

GitScp(v) == v.syn = "scp" => v.user = GitUser

MaxStderr == 4

StderrTokens ==
    { Word("LNK2038"), Word("RuntimeLibrary"), Word("doesn't match"),
      Word("recompile with -fPIC"), Word("relocation"), Word("R_X86_64"),
      Value(<<"M","D">>), Value(<<"M","T">>), Value(<<"M","D","d">>) }

StderrTexts == UNION { [1..n -> StderrTokens] : n \in 0..MaxStderr }

DiagInit ==
    /\ stderr \in StderrTexts /\ suggs = NotRun
    /\ UrlIdle
    /\ IndexIdle
    /\ DetIdle
    /\ FsIdle

Analyze ==
    /\ ~suggs.ran
    /\ suggs' = [ran |-> TRUE, out |-> DetectLnkAndPicIssues(stderr)]
    /\ UNCHANGED stderr

DiagNext == Analyze /\ UNCHANGED <<urlVars, ixVars, detVars, fsVars>>

SpecDiag == DiagInit /\ [][DiagNext]_vars

\* the linker runtime-mismatch signature: an LNK2038 error naming two
\* conflicting runtime tags, value 'A_...' doesn't match value 'B_...'
HasMismatchSignature(text) ==
    /\ InText(text, "LNK2038")
    /\ \E i \in MismatchAt(text) : text[i].tag # text[i+2].tag

RefersToMismatch(sugg) == sugg.id = "Detected MSVC runtime mismatch between"

\* C8: for every stderr text holding the runtime-mismatch signature,
\* detect_lnk_and_pic_issues returns a non-empty list with an entry that
\* refers to the MSVC runtime mismatch.
C8_MismatchSignatureSuggested ==
    (suggs.ran /\ HasMismatchSignature(stderr)) =>
        /\ suggs.out # <<>>
        /\ \E i \in 1..Len(suggs.out) : RefersToMismatch(suggs.out[i])

(***************************************************************************)
(* SpecDetect: AutoBuilder.detect on every source directory holding at     *)
(* most MaxMarkers marker entries.                                         *)
(***************************************************************************)
MaxMarkers == 2

RECURSIVE MarkerSets(_)
\* the sets of at most k marker entries
MarkerSets(k) ==
    IF k = 0 THEN {{}}
    ELSE LET smaller == MarkerSets(k - 1)
         IN smaller \cup {s \cup {f} : s \in smaller, f \in Markers}

ManifestDocs ==
    {Unparsable,
     ManifestDoc(<<>>, <<>>, <<>>, "None", "None"),
     ManifestDoc(<<Shell("sh build.sh {PREFIX}")>>, <<"x">>, <<>>, "None", "None"),
     ManifestDoc(<<Shell("sh build.sh {PREFIX}")>>, <<"x">>, <<"cmake">>, "MT", "true")}

DetectInit ==
    /\ plan = NotRun
    /\ \E m \in MarkerSets(MaxMarkers) :
         /\ \E mf \in (IF "anvil.json" \in m THEN ManifestDocs ELSE {Unparsable}),
               mk \in (IF m \cap MakeMarkers # {} THEN {"none", "make", "nmake"} ELSE {"make"}),
               it \in (IF m \cap MakeMarkers # {} THEN BOOLEAN ELSE {FALSE}),
               cg \in (IF "Cargo.toml" \in m THEN {"virtual", "bin", "lib"} ELSE {"lib"}),
               os \in (IF "CMakeLists.txt" \in m THEN {"posix", "nt"} ELSE {"posix"}) :
              \E pk \in (IF mf.ok /\ mf.build_dependencies # <<>> THEN BOOLEAN ELSE {TRUE}),
                 env \in (IF os = "nt" THEN {"", "MT"} ELSE {""}) :
                   srcdir = [markers |-> m, name |-> "x", manifest |-> mf, pkg_ok |-> pk,
                             make_bin |-> mk, install_target |-> it, cargo |-> cg,
                             os |-> os, msvc_env |-> env]
    /\ UrlIdle
    /\ IndexIdle
    /\ DiagIdle
    /\ FsIdle

RunDetect ==
    /\ ~plan.ran
    /\ plan' = [ran |-> TRUE, out |-> Detect(srcdir)]
    /\ UNCHANGED srcdir

DetectNext == RunDetect /\ UNCHANGED <<urlVars, ixVars, diagVars, fsVars>>

SpecDetect == DetectInit /\ [][DetectNext]_vars

\* the strategies in the order detect tries them: what selects each, and
\* everything it reads
Strategy(name, triggers, reads) == [name |-> name, triggers |-> triggers, reads |-> reads]

Strategies ==
    <<Strategy("manifest", {"anvil.json"}, {}),
      Strategy("setup.py", {"setup.py"}, {}),
      Strategy("requirements", {"requirements.txt"}, {}),
      Strategy("autotools", {"configure"}, {}),
      Strategy("make", MakeMarkers, {}),
      Strategy("cmake", {"CMakeLists.txt"}, {}),
      Strategy("cargo", {"Cargo.toml"}, {}),
      Strategy("go", {"go.mod", "main.go", "*.go"}, {"cmd/*.go"}),
      Strategy("node", {"package.json"}, {}),
      Strategy("pyproject", {"pyproject.toml"}, {}),
      Strategy("ninja", {"build.ninja"}, {}),
      Strategy("meson", {"meson.build"}, {}),
      Strategy("gem", {"*.gemspec"}, {}),
      Strategy("swift", {"Package.swift"}, {}),
      Strategy("scons", {"SConstruct"}, {}),
      Strategy("gradle", {"build.gradle", "gradlew"}, {}),
      Strategy("bazel", {"WORKSPACE", "BUILD"}, {}),
      Strategy("dotnet", {"*.csproj"}, {}),
      Strategy("zig", {"build.zig", "zig.toml"}, {}),
      Strategy("maven", {"pom.xml"}, {}),
      Strategy("archive", ArchiveMarkers, {}),
      Strategy("hg", {".hg"}, {}),
      Strategy("svn", {".svn"}, {}),
      Strategy("copy", {}, {})>>

\* the highest-priority strategy with a marker in m (the last one is the
\* fallback, which needs none)
FirstMatch(m) ==
    LET hit == {i \in 1..Len(Strategies) : Strategies[i].triggers \cap m # {}}
    IN IF hit = {} THEN Strategies[Len(Strategies)]
       ELSE Strategies[CHOOSE i \in hit : \A j \in hit : i <= j]

\* the directory with only the winning strategy's own entries left in it
WinnerAlone(d) ==
    LET w == FirstMatch(d.markers)
    IN [d EXCEPT !.markers = d.markers \cap (w.triggers \cup w.reads)]

MakeWithGoModule(d) ==
    /\ FirstMatch(d.markers).name = "make"
    /\ d.make_bin # "none"
    /\ ~d.install_target
    /\ "go.mod" \in d.markers

MaxLinks == 1

MaxCalls == 1

BaseTree ==
    SetupDirs(Tree({ROOT, WORK, SRV, INSTALL_DIR \o <<nx>>, INSTALL_DIR \o <<nx, nbin>>},
                   {WORK \o << <<"f">> >>, INSTALL_DIR \o <<nx, nbin, nx>>}))

LinkPlaces == {SRV \o << <<"l">> >>, WORK \o << <<"l">> >>}

LinkTargets == {ROOT, HOME, ANVIL_ROOT, INSTALL_DIR \o <<nx>>, WORK \o << <<"f">> >>}

RECURSIVE WithLinks(_, _)
\* the filesystems got from f by adding at most k symbolic links
WithLinks(f, k) ==
    IF k = 0 THEN {f}
    ELSE LET fewer == WithLinks(f, k - 1)
         IN fewer \cup {With(g, at, Link(to)) :
                          g \in fewer, at \in LinkPlaces, to \in LinkTargets}

\* the path arguments tried: every entry, every entry reached through a
\* symbolic link, each of them followed by "..", and a path that is absent
RawPaths(f) ==
    LET links == {q \in DOMAIN f : f[q].kind = "link"}
        through == UNION {{l \o SubSeq(q, Len(f[l].to) + 1, Len(q)) :
                             q \in {r \in DOMAIN f : IsUnder(f[l].to, r)}} : l \in links}
        plain == DOMAIN f \cup through
    IN plain \cup {q \o <<DotDot>> : q \in plain} \cup {SRV \o <<nx>>}

RmInit ==
    /\ fs \in WithLinks(BaseTree, MaxLinks)
    /\ last = NoOp
    /\ calls = 0
    /\ os_name = "posix"
    /\ UrlIdle
    /\ IndexIdle
    /\ DiagIdle
    /\ DetIdle

CallSafeRmtree(raw, perm) ==
    LET r == SafeRmtreeAs(fs, raw, perm)
    IN /\ calls < MaxCalls
       /\ calls' = calls + 1
       /\ fs' = r.f
       /\ last' = [op |-> "safe_rmtree", path |-> raw, before |-> fs,
                   outcome |-> r.outcome, perm |-> perm, attempts |-> r.attempts]
       /\ UNCHANGED os_name

RmNext ==
    /\ \E raw \in RawPaths(fs), perm \in Perms : CallSafeRmtree(raw, perm)
    /\ UNCHANGED <<urlVars, ixVars, diagVars, detVars>>

SpecRm == RmInit /\ [][RmNext]_vars

\* C3: when the path, resolved, is the Anvil root, the home directory or the
\* filesystem root, safe_rmtree deletes nothing and returns normally (it
\* reports a refusal), for the exact path and for any path resolving to it.
C3_ProtectedPathsRefused ==
    (last.op = "safe_rmtree" /\ Exists(last.before, last.path)
       /\ Resolve(last.before, last.path) \in {ANVIL_ROOT, HOME, ROOT})
      => fs = last.before /\ last.outcome = "refused"

\* a path that is not the exact protected path but resolves to it was refused
C3_Witness ==
    /\ last.op = "safe_rmtree"
    /\ last.path \notin {ANVIL_ROOT, HOME, ROOT}
    /\ Exists(last.before, last.path)
    /\ Resolve(last.before, last.path) \in {ANVIL_ROOT, HOME, ROOT}
    /\ last.outcome = "refused"
    /\ Below(last.before, HOME) # {}

\* C4: in every state reachable through safe_rmtree calls the Anvil root, the
\* home directory and the filesystem root still exist.  (Violated: the
\* parent of the home directory is not protected.)
C4_ProtectedDirsSurvive ==
    {ANVIL_ROOT, HOME, ROOT} \subseteq DOMAIN fs

(***************************************************************************)
(* SpecHouse: one run of housekeeping on each of the home directories.     *)
(***************************************************************************)
MaxExtras == 3

AnvilInit ==
    /\ fs \in WithExtras(AnvilBase, MaxExtras)
    /\ os_name \in {"posix", "nt"}
    /\ last = NoOp
    /\ calls = 0
    /\ UrlIdle
    /\ IndexIdle
    /\ DiagIdle
    /\ DetIdle

RunHousekeeping ==
    /\ calls = 0
    /\ calls' = 1
    /\ fs' = Housekeeping(SetupDirs(fs))
    /\ last' = [op |-> "housekeeping", before |-> fs]
    /\ UNCHANGED os_name

HouseNext == RunHousekeeping /\ UNCHANGED <<urlVars, ixVars, diagVars, detVars>>

SpecHouse == AnvilInit /\ [][HouseNext]_vars

OutsideBuildAndBin(q) == ~IsUnder(BUILD_DIR, q) /\ ~IsUnder(BIN_DIR, q)

\* C9 as stated: after housekeeping the build directory still exists and has
\* no children, and every entry outside build/ and bin/ is unchanged.
\* (Violated: a child of build/ that is a symbolic link to a directory stays.)
C9_BuildDirEmptied ==
    last.op = "housekeeping" =>
        /\ BUILD_DIR \in DOMAIN fs /\ fs[BUILD_DIR].kind = "dir"
        /\ Children(fs, BUILD_DIR) = {}
        /\ \A q \in DOMAIN last.before \cup DOMAIN fs :
              OutsideBuildAndBin(q) =>
                  q \in DOMAIN last.before /\ q \in DOMAIN fs /\ fs[q] = last.before[q]

LinkedPrefixes == {PrefixX, PrefixT}

CallLinkBinaries(install_path, explicit) ==
    /\ calls < 2
    /\ IsDir(fs, install_path)
    /\ \E order \in Orders(Candidates(fs, install_path, explicit, os_name)) :
          LET r == LinkEach(fs, order, os_name)
          IN /\ fs' = r.f
             /\ last' = [op |-> "_link_binaries", install_path |-> install_path,
                         explicit_binaries |-> explicit, before |-> fs,
                         raised |-> r.raised,
                         prev |-> IF last.op = "none" THEN NoOp
                                  ELSE [op |-> last.op, install_path |-> last.install_path,
                                        explicit_binaries |-> last.explicit_binaries,
                                        raised |-> last.raised]]
    /\ calls' = calls + 1
    /\ UNCHANGED os_name

LinkNext ==
    /\ \E install_path \in LinkedPrefixes, explicit \in {<<>>, <<nx>>} :
          CallLinkBinaries(install_path, explicit)
    /\ UNCHANGED <<urlVars, ixVars, diagVars, detVars>>

SpecLink == AnvilInit /\ [][LinkNext]_vars

\* the second of two calls with the same arguments, the first of which
\* returned
SecondCall ==
    /\ last.op = "_link_binaries"
    /\ last.prev.op = "_link_binaries"
    /\ last.prev.install_path = last.install_path
    /\ last.prev.explicit_binaries = last.explicit_binaries
    /\ ~last.prev.raised

\* C6 as stated: the second call with the same install prefix and the same
\* expected stems leaves the shared bin directory with the same entries as
\* the first left, and raises nothing.  (Violated on nt: a prefix holding
\* tool and tool.bat.)
C6_LinkIdempotent ==
    SecondCall =>
        /\ ~last.raised
        /\ Children(fs, BIN_DIR) = Children(last.before, BIN_DIR)

(***************************************************************************)
(* SpecForge: one run of forge on each of the home directories.            *)
(***************************************************************************)
TargetX == <<"/", "h", "o", "m", "e", "/", "u", "/", "w", "/", "x">>

ForgeTargets ==
    {TargetX,
     <<"/", "h", "o", "m", "e", "/", "u", "/", "w", "/", "t">>,
     <<"g">>,
     SeedName,
     <<"h", "t", "t", "p", "s", ":", "/", "/", "g", "h", ".", "i", "o", "/", "o", "/", "x", ".", "g", "i", "t">>,
     <<"g", "i", "t", "@", "g", "h", ".", "i", "o", ":", "o", "/", "x", ".", "g", "i", "t">>,
     <<"h", "t", "t", "p", "s", ":", "/", "/", "g", "h", ".", "i", "o", "/", "o", "/", "x", "/">>,
     <<"n", "o", "p", "e">>}

\* how many entries earlier runs have left under the anvil root
MaxLeftovers == 1

\* the origin remotes the checkout g may have: one no index text resembles,
\* and the seed URL with a second .git
Remotes == {RemoteG, SeedUrl \o DotGit}

\* the home directory f with url as the origin remote of the checkout g
WithRemote(f, url) == [f EXCEPT ![WORK \o <<ng, ndotgit>>] = GitDir(url)]

ForgeInit ==
    /\ fs \in {WithRemote(f, url) : f \in WithExtras(AnvilBase, MaxLeftovers), url \in Remotes}
    /\ os_name \in {"posix", "nt"}
    /\ last = NoOp
    /\ calls = 0
    /\ IndexIdle
    /\ UrlIdle
    /\ DiagIdle
    /\ DetIdle

NoClass == [kind |-> "unknown", url |-> <<>>, name |-> <<>>, remote |-> <<>>]

At(pc) == last.op = "forge" /\ last.pc = pc

Goto(pc) == last' = [last EXCEPT !.pc = pc]

End(outcome) == last' = [last EXCEPT !.pc = "done", !.outcome = outcome]

build_path == JoinName(BUILD_DIR, last.c.name)

install_path == JoinName(INSTALL_DIR, last.c.name)

\* what forge leaves alone
ForgeFrame == <<urlVars, diagVars, detVars, ixlast>>

\* Anvil(auto_submit) is constructed and forge(target, check_release) entered;
\* last.forged lists the targets forge is entered with during the call
ForgeCall(target, check_release, auto_submit) ==
    /\ calls = 0
    /\ calls' = 1
    /\ fs' = SetupDirs(fs)
    /\ last' = [op |-> "forge", pc |-> "classify", target |-> target,
                check_release |-> check_release, auto_submit |-> auto_submit,
                before |-> fs, c |-> NoClass, steps |-> <<>>, binaries |-> <<>>,
                submit |-> "not entered", outcome |-> "running",
                forged |-> <<target>>]
    /\ UNCHANGED <<db, os_name, ForgeFrame>>

\* ForgeClassify with the build directory made before the release check ends
\* the call
ForgeClassifyBuildDirFirst(net) ==
    LET c == Classify(fs, db, last.target)
        release == CheckForRelease(fs, IF c.url # <<>> THEN c.url ELSE c.name, net, os_name)
        made == With(release.f, Place(release.f, JoinName(BUILD_DIR, c.name)), Dir)
    IN /\ At("classify")
       /\ IF c.kind = "unknown" THEN End("not found") /\ fs' = fs
          ELSE IF last.check_release /\ release.raised THEN End("raised") /\ fs' = fs
          ELSE IF last.check_release /\ release.found THEN End("release") /\ fs' = made
          ELSE last' = [last EXCEPT !.pc = "build dir", !.c = c] /\ fs' = fs
       /\ UNCHANGED <<db, calls, os_name, ForgeFrame>>

\* the reading of the target, and the release check
ForgeClassify(net) ==
    LET c == Classify(fs, db, last.target)
        release == CheckForRelease(fs, IF c.url # <<>> THEN c.url ELSE c.name, net, os_name)
    IN /\ At("classify")
       /\ IF c.kind = "unknown" THEN End("not found") /\ fs' = fs
          ELSE IF last.check_release /\ release.raised THEN End("raised") /\ fs' = fs
          ELSE IF last.check_release /\ release.found THEN End("release") /\ fs' = release.f
          ELSE last' = [last EXCEPT !.pc = "build dir", !.c = c] /\ fs' = fs
       /\ UNCHANGED <<db, calls, os_name, ForgeFrame>>

\* ForgeBuildDir keeping a build directory that is there
ForgeBuildDirKeeping ==
    /\ At("build dir")
    /\ IF Exists(fs, build_path)
       THEN fs' = fs /\ (IF IsDir(fs, build_path) THEN Goto("fetch") ELSE End("raised"))
       ELSE fs' = With(fs, Place(fs, build_path), Dir) /\ Goto("fetch")
    /\ UNCHANGED <<db, calls, os_name, ForgeFrame>>

\* if build_path.exists(): safe_rmtree(build_path); build_path.mkdir()
ForgeBuildDir ==
    LET cleared == IF Exists(fs, build_path) THEN SafeRmtree(fs, build_path).f ELSE fs
    IN /\ At("build dir")
       /\ IF CanMkdir(cleared, build_path)
          THEN fs' = With(cleared, Place(cleared, build_path), Dir) /\ Goto("fetch")
          ELSE fs' = cleared /\ End("raised")
       /\ UNCHANGED <<db, calls, os_name, ForgeFrame>>

\* the copy of a local directory, or the clone
ForgeFetch(clone) ==
    LET tree == CloneTree(last.c.url)
        at == Resolve(fs, build_path)
    IN /\ At("fetch")
       /\ IF IsLocalDir(fs, last.target)
          THEN fs' = CopyInto(fs, PathOf(last.target), build_path) /\ Goto("detect")
          ELSE IF clone = "fail" THEN fs' = fs /\ End("raised")
          ELSE /\ fs' = [q \in DOMAIN fs \cup {at \o r : r \in DOMAIN tree} |->
                            IF q \in DOMAIN fs THEN fs[q]
                            ELSE tree[SubSeq(q, Len(at) + 1, Len(q))]]
               /\ Goto("detect")
       /\ UNCHANGED <<db, calls, os_name, ForgeFrame>>

\* AutoBuilder.detect(build_path, install_path)
ForgeDetect ==
    LET detected == Detect(SourceDirAt(fs, build_path, os_name))
    IN /\ At("detect")
       /\ IF detected.raised THEN End("raised")
          ELSE last' = [last EXCEPT !.pc = "prefix", !.steps = detected.steps,
                                    !.binaries = detected.binaries]
       /\ UNCHANGED <<fs, db, calls, os_name, ForgeFrame>>

\* if install_path.exists(): safe_rmtree(install_path);
\* install_path.mkdir(parents=True, exist_ok=True)
ForgePrefix ==
    LET cleared == IF Exists(fs, install_path) THEN SafeRmtree(fs, install_path).f ELSE fs
    IN /\ At("prefix")
       /\ IF Exists(cleared, install_path)
          THEN fs' = cleared /\ (IF IsDir(cleared, install_path) THEN Goto("steps")
                                 ELSE End("raised"))
          ELSE fs' = With(cleared, Place(cleared, install_path), Dir) /\ Goto("steps")
       /\ UNCHANGED <<db, calls, os_name, ForgeFrame>>

\* what the command of a failing step may have written to stderr
StepStderrs ==
    { <<>>, <<Word("recompile with -fPIC")>>, <<Word("LNK2038"), Word("RuntimeLibrary")>> }

\* ForgeSteps with the build directory removed when a step fails
ForgeStepsCleaning ==
    /\ At("steps")
    /\ \E failing \in 0..Len(last.steps), err \in StepStderrs :
          \E ran \in {RunSteps(fs, last.steps, build_path, install_path, failing)} :
             IF ran.failed
             THEN /\ fs' = SafeRmtree(ran.f, build_path).f
                  /\ End("raised")
                  /\ stderr' = err
                  /\ suggs' = [ran |-> TRUE, out |-> DetectLnkAndPicIssues(err)]
             ELSE fs' = ran.f /\ Goto("link") /\ UNCHANGED diagVars
    /\ UNCHANGED <<db, calls, os_name, urlVars, detVars, ixlast>>

\* the loop over the steps; when a command fails, the analyzer reads its
\* stderr, the suggestions are printed and the error is raised again
ForgeSteps ==
    /\ At("steps")
    /\ \E failing \in 0..Len(last.steps), err \in StepStderrs :
          \E ran \in {RunSteps(fs, last.steps, build_path, install_path, failing)} :
             /\ fs' = ran.f
             /\ IF ran.failed
                THEN /\ End("raised")
                     /\ stderr' = err
                     /\ suggs' = [ran |-> TRUE, out |-> DetectLnkAndPicIssues(err)]
                ELSE Goto("link") /\ UNCHANGED diagVars
    /\ UNCHANGED <<db, calls, os_name, urlVars, detVars, ixlast>>

\* self._link_binaries(install_path, binaries)
ForgeLink ==
    /\ At("link")
    /\ \E order \in Orders(Candidates(fs, install_path, last.binaries, os_name)) :
          LET linked == LinkEach(fs, order, os_name)
          IN /\ fs' = linked.f
             /\ IF linked.raised THEN End("raised") ELSE Goto("cleanup")
    /\ UNCHANGED <<db, calls, os_name, ForgeFrame>>

\* what can go wrong in the automatic submission: where, and the class of
\* the exception (sqlite3 on the store, urlparse's ValueError in
\* normalize_url, the terminal's OSError or UnicodeEncodeError, a ValueError)
NoFailure == [at |-> "none", class |-> "none"]

SubmitFailures ==
    {NoFailure}
      \cup [at : {"has_url", "add_local"}, class : {"sqlite3.Error", "ValueError"}]
      \cup [at : {"print link"}, class : {"OSError", "ValueError"}]

CaughtWithoutSqlite == {"subprocess.CalledProcessError", "OSError", "ValueError"}

\* the except clause around the automatic submission
Caught == {"sqlite3.Error", "subprocess.CalledProcessError", "OSError", "ValueError"}

\* the automatic submission for final_url: [table, failed, escaped]
AutoSubmit(table, auto_submit, final_url, failure) ==
    LET out(t, fl) == [table |-> t, failed |-> fl,
                       escaped |-> fl # "none" /\ fl \notin Caught]
    IN IF ~auto_submit \/ final_url = <<>> THEN out(table, "none")
       ELSE IF failure.at = "has_url" THEN out(table, failure.class)
       ELSE IF HasUrl(table, final_url) THEN out(table, "none")
       ELSE IF failure.at = "add_local" THEN out(table, failure.class)
       ELSE IF failure.at = "print link" THEN out(Submit(table, final_url), failure.class)
       ELSE out(Submit(table, final_url), "none")

\* ForgeCleanup removing the install prefix in place of the workspace
ForgeCleanupPrefix(failure) ==
    LET c == last.c
        final_url == IF c.remote # <<>> THEN c.remote
                     ELSE IF StartsWith(c.url, Http) \/ StartsWith(c.url, GitAt) THEN c.url
                     ELSE <<>>
    IN /\ At("cleanup")
       /\ fs' = SafeRmtree(fs, install_path).f
       /\ \E sub \in {AutoSubmit(db, last.auto_submit, final_url, failure)} :
             /\ db' = sub.table
             /\ last' = [last EXCEPT !.pc = "done", !.submit = sub.failed,
                                     !.outcome = IF sub.escaped THEN "raised" ELSE "forged"]
       /\ UNCHANGED <<calls, os_name, ForgeFrame>>

\* safe_rmtree(build_path) and the automatic submission
ForgeCleanup(failure) ==
    LET c == last.c
        final_url == IF c.remote # <<>> THEN c.remote
                     ELSE IF StartsWith(c.url, Http) \/ StartsWith(c.url, GitAt) THEN c.url
                     ELSE <<>>
    IN /\ At("cleanup")
       /\ fs' = SafeRmtree(fs, build_path).f
       /\ \E sub \in {AutoSubmit(db, last.auto_submit, final_url, failure)} :
             /\ db' = sub.table
             /\ last' = [last EXCEPT !.pc = "done", !.submit = sub.failed,
                                     !.outcome = IF sub.escaped THEN "raised" ELSE "forged"]
       /\ UNCHANGED <<calls, os_name, ForgeFrame>>

ForgeNext ==
    \/ \E target \in ForgeTargets, check_release \in BOOLEAN, auto_submit \in BOOLEAN :
          ForgeCall(target, check_release, auto_submit)
    \/ \E net \in {"none", "asset"} : ForgeClassify(net)
    \/ ForgeBuildDir
    \/ \E clone \in {"ok", "fail"} : ForgeFetch(clone)
    \/ ForgeDetect
    \/ ForgePrefix
    \/ ForgeSteps
    \/ ForgeLink
    \/ \E failure \in SubmitFailures : ForgeCleanup(failure)

SpecForge == ForgeInit /\ [][ForgeNext]_vars

\* C5 as stated: forging the local directory x, which holds only a manifest
\* with binaries ["x"] and a step writing {PREFIX}/bin/x, ends with the file
\* opt/x/bin/x and with an entry point named x in the shared bin directory.
\* (Violated on POSIX, where _link_binaries writes nothing.)
C5_ForgeLocalManifest ==
    (last.op = "forge" /\ last.target = TargetX /\ last.outcome = "forged") =>
        /\ IsFile(fs, PrefixX \o <<nbin, nx>>)
        /\ \E b \in Children(fs, BIN_DIR) : Stem(Name(b)) = nx /\ Exists(fs, b)

\* C11: a forge with release checking enabled whose release check succeeds
\* returns having wiped or changed no entry (nothing under build/, nothing
\* under the install prefix, no published entry), having created nothing
\* outside the install root (the release check itself may install the
\* prebuilt asset there), having run no detection or step, and having left
\* the index alone.
C11_ReleaseShortCircuit ==
    (last.op = "forge" /\ last.outcome = "release") =>
        Let(SetupDirs(last.before), LAMBDA start :
            /\ last.check_release
            /\ \A q \in DOMAIN start : q \in DOMAIN fs /\ fs[q] = start[q]
            /\ \A q \in DOMAIN fs : q \in DOMAIN start \/ IsUnder(INSTALL_DIR, q)
            /\ last.steps = <<>> /\ last.binaries = <<>>
            /\ db = BootstrapDb)

\* the release check found the existing install of x and forge returned
C11_Witness ==
    /\ last.op = "forge" /\ last.outcome = "release" /\ last.target = TargetX
    /\ PrefixX \o <<nbin, nx>> \in DOMAIN last.before

\* a forge of a local git working copy whose origin remote is not in the
\* index has ended successfully
ForgedUnlistedRemote ==
    /\ last.op = "forge" /\ last.outcome = "forged"
    /\ last.c.kind = "local" /\ last.c.remote # <<>>
    /\ ~HasUrl(BootstrapDb, last.c.remote)

\* C12 as stated: after a successful forge of a local git working copy whose
\* origin remote u is not yet in the index, has_url(u) is true when
\* auto-submit is enabled, and when it is disabled the store is unchanged and
\* has_url(u) is still false.
\* (Violated: add_local returns early when has_url(normalize_url(u)) holds,
\* which it can while has_url(u) does not.)
C12_AutoSubmitIndexesRemote ==
    ForgedUnlistedRemote =>
        IF last.auto_submit THEN HasUrl(db, last.c.remote)
        ELSE db = BootstrapDb /\ ~HasUrl(db, last.c.remote)

\* C13: a forge whose build, link and cleanup succeeded returns normally
\* however the automatic submission fails, with the install prefix and the
\* published entries as the link phase left them (the step out of cleanup
\* removes entries under the build root only).
C13_SubmitFailureSwallowed ==
    [][At("cleanup") =>
          /\ last'.outcome = "forged"
          /\ IsDir(fs', install_path)
          /\ \A q \in DOMAIN fs : IsUnder(BUILD_DIR, q) \/ (q \in DOMAIN fs' /\ fs'[q] = fs[q])]_vars

\* a forge returned normally although the store failed in has_url
C13_Witness ==
    /\ last.op = "forge" /\ last.outcome = "forged"
    /\ last.submit = "sqlite3.Error"
    /\ IsDir(fs, install_path)

\* C14: when a shell step fails, the analyzer has run on the step's stderr,
\* the call is over (no step is ever taken after it: no later build step, no
\* link, cleanup or submission), the steps before the failing one and no
\* other have run, the build directory and the install prefix are in place,
\* and the index is untouched.
C14_StepFailureAborts ==
    [][/\ (At("steps") /\ last'.outcome = "raised") =>
             /\ last'.pc = "done"
             /\ suggs'.ran /\ suggs'.out = DetectLnkAndPicIssues(stderr')
             /\ \E k \in 0..(Len(last.steps) - 1) :
                   /\ last.steps[k + 1].kind = "shell"
                   /\ fs' = RunSteps(fs, SubSeq(last.steps, 1, k), build_path, install_path, 0).f
             /\ IsDir(fs', build_path) /\ IsDir(fs', install_path)
             /\ db' = db
       /\ ~At("done")]_vars

\* the second step of t failed: the prefix holds what the first step wrote,
\* and the analyzer found something to suggest
C14_Witness ==
    /\ last.op = "forge" /\ last.outcome = "raised" /\ Len(last.steps) = 2
    /\ suggs.ran /\ suggs.out # <<>>
    /\ IsFile(fs, PrefixT \o <<nbin, ntool>>) /\ ~Exists(fs, PrefixT \o <<nbin, ntoolbat>>)
    /\ IsDir(fs, build_path)

(***************************************************************************)
(* SpecRepo: the RepoIndex object over the index directory.  fs holds the   *)
(* index directory, db the repositories table of index.db (empty while the  *)
(* file does not exist), last the call made and how it ended.               *)
(***************************************************************************)
ndb == <<"i", "n", "d", "e", "x", ".", "d", "b">>

njunk == <<"j", "u", "n", "k">>

nreadme == <<"R", "E", "A", "D", "M", "E">>

\* self.db_path
db_path == INDEX_DIR \o <<ndb>>

INDEX_REPO_URL == Word("https://github.com/sycomix/Anvil_Index.git")

NoTable == <<>>

MaxIndexCalls == 3

\* the index directories a call can find: absent, or present with or without
\* a .git entry (a directory or a plain file), a stray entry and a store
IndexDirs ==
    {Tree(Prefixes(HOME), {})}
      \cup {Merge(Merge(Merge(Tree(Prefixes(INDEX_DIR), {}), git), stray), store) :
               git \in {<<>>, One(INDEX_DIR \o <<ndotgit>>, GitDir(INDEX_REPO_URL)),
                        One(INDEX_DIR \o <<ndotgit>>, File(FALSE, NoDoc))},
               stray \in {<<>>, One(INDEX_DIR \o <<njunk>>, File(FALSE, NoDoc))},
               store \in {<<>>, One(db_path, File(FALSE, NoDoc))}}

\* how a git command run in the index directory may end: exit status 0, a
\* non-zero exit status, or the shell not starting at all
GitOutcomes == {"ok", "nonzero", "oserror"}

\* run_cmd of a git command: what the caller sees
RunGit(outcome) ==
    CASE outcome = "ok" -> "returned"
      [] outcome = "nonzero" -> "CommandExecutionError"
      [] outcome = "oserror" -> "OSError"

\* the except clause around the clone and around the pull
GitCaught == {"subprocess.CalledProcessError", "OSError"}

\* what `git clone <url> .` leaves in the index directory
Cloned(f) ==
    Merge(f, Merge(One(INDEX_DIR \o <<ndotgit>>, GitDir(INDEX_REPO_URL)),
                   One(INDEX_DIR \o <<nreadme>>, File(FALSE, NoDoc))))

\* the methods the class RepoIndex defines
Methods ==
    {"__init__", "_ensure_exists", "_create_bootstrap_db", "_migrate_schema", "ensure_db",
     "get_url", "has_url", "add_local", "normalize_url", "search", "update"}

\* the checkout of the index directory is not a valid one
InvalidCheckout(f) ==
    \/ ~IsDir(f, INDEX_DIR \o <<ndotgit>>)
    \/ Exists(f, INDEX_DIR \o <<njunk>>)

RepoInit ==
    /\ fs \in IndexDirs
    /\ db = IF Exists(fs, db_path) THEN BootstrapDb ELSE NoTable
    /\ last = [op |-> "none", obj |-> FALSE]
    /\ calls = 0
    /\ os_name = "posix"
    /\ ixlast = [op |-> "none"]
    /\ UrlIdle
    /\ DiagIdle
    /\ DetIdle

RepoFrame == <<urlVars, diagVars, detVars, ixlast, os_name>>

RepoCall == calls < MaxIndexCalls /\ calls' = calls + 1

\* RepoIndex(): __init__ and _ensure_exists
RepoConstruct(clone) ==
    /\ RepoCall
    /\ LET missing == ~Exists(fs, INDEX_DIR)
           made == IF missing THEN Merge(Tree(Prefixes(INDEX_DIR), {}), fs) ELSE fs
           ran == IF missing THEN RunGit(clone) ELSE "not run"
           cloned == IF ran = "returned" THEN Cloned(made) ELSE made
       IN IF ran \notin {"returned", "not run"} \cup GitCaught
          THEN /\ fs' = cloned
               /\ db' = db
               /\ last' = [op |-> "RepoIndex", obj |-> FALSE, missing |-> missing,
                           git |-> clone, outcome |-> "raised", class |-> ran,
                           warned |-> FALSE, before |-> fs, table |-> db]
          ELSE /\ fs' = Merge(cloned, One(db_path, File(FALSE, NoDoc)))
               /\ db' = IF Exists(cloned, db_path) THEN db ELSE BootstrapDb
               /\ last' = [op |-> "RepoIndex", obj |-> TRUE, missing |-> missing,
                           git |-> clone, outcome |-> "returned", class |-> "none",
                           warned |-> FALSE, before |-> fs, table |-> db]
    /\ UNCHANGED RepoFrame

\* RepoIndex.update
RepoUpdate(pull) ==
    /\ RepoCall
    /\ last.obj
    /\ IsDir(fs, INDEX_DIR \o <<ndotgit>>) \/ pull # "ok"
    /\ LET checkout == Exists(fs, INDEX_DIR \o <<ndotgit>>)
           ran == IF checkout THEN RunGit(pull) ELSE "not run"
       IN last' = [op |-> "update", obj |-> TRUE, missing |-> FALSE, git |-> pull,
                   outcome |-> IF ran \in {"returned", "not run"} \cup GitCaught
                               THEN "returned" ELSE "raised",
                   class |-> IF ran \in {"returned", "not run"} \cup GitCaught
                             THEN "none" ELSE ran,
                   warned |-> FALSE, before |-> fs, table |-> db]
    /\ UNCHANGED <<fs, db, RepoFrame>>

\* RepoIndex.add_local
RepoAddLocal(name, url) ==
    /\ RepoCall
    /\ last.obj
    /\ db' = AddLocalTable(db, name, url)
    /\ last' = [op |-> "add_local", obj |-> TRUE, missing |-> FALSE, git |-> "none",
                outcome |-> "returned", class |-> "none",
                warned |-> FALSE, before |-> fs, table |-> db]
    /\ UNCHANGED <<fs, RepoFrame>>

\* idx.<method>() for a name the class does not define
RepoGetattr(method) ==
    /\ RepoCall
    /\ last.obj
    /\ method \notin Methods
    /\ last' = [op |-> method, obj |-> TRUE, missing |-> FALSE, git |-> "none",
                outcome |-> "raised", class |-> "AttributeError",
                warned |-> FALSE, before |-> fs, table |-> db]
    /\ UNCHANGED <<fs, db, RepoFrame>>

RepoNext ==
    \/ \E clone \in GitOutcomes : RepoConstruct(clone)
    \/ \E pull \in GitOutcomes : RepoUpdate(pull)
    \/ \E url \in {RemoteG, SeedUrl} : RepoAddLocal(ng, url)
    \/ \E method \in {"check", "repair"} : RepoGetattr(method)

SpecRepo == RepoInit /\ [][RepoNext]_vars

\* C15: constructing the index when the index directory is missing returns
\* normally whatever the clone did, and afterwards the directory and the
\* store exist and the store holds the seed record.
\* (Violated: a clone that exits non-zero raises CommandExecutionError, which
\* the except clause does not name; no store is created.)
C15_ConstructNeverRaises ==
    (last.op = "RepoIndex" /\ last.missing) =>
        /\ last.outcome = "returned"
        /\ IsDir(fs, INDEX_DIR)
        /\ IsFile(fs, db_path)
        /\ GetUrl(db, SeedName) = SeedUrl
        /\ HasUrl(db, SeedUrl)

\* C16: update() with a checkout whose pull exits non-zero returns normally,
\* has warned the user and leaves the store as it was.
\* (Violated: CommandExecutionError leaves update(), and nothing is printed.)
C16_UpdateSwallowsPullFailure ==
    (last.op = "update" /\ Exists(last.before, INDEX_DIR \o <<ndotgit>>)
       /\ last.git = "nonzero") =>
        /\ last.outcome = "returned"
        /\ last.warned
        /\ db = last.table

\* C17: on an index directory with an invalid checkout, check() and repair()
\* return normally (check with a report, repair after cloning again), and no
\* other call repairs the checkout.
\* (Violated: RepoIndex defines neither method; the call raises
\* AttributeError.)
C17_CheckReportsRepairReclones ==
    /\ (last.op \in {"check", "repair"} /\ InvalidCheckout(last.before)) =>
           /\ last.outcome = "returned"
           /\ last.op = "repair" => ~InvalidCheckout(fs)
    /\ (last.op \in {"update", "add_local"} /\ InvalidCheckout(last.before)) =>
           InvalidCheckout(fs)

\* C18: safe_rmtree of a path that names an existing regular file, not a
\* protected one, removes the file: nothing exists at the path afterwards.
\* (Violated: shutil.rmtree removes directories only; the three attempts
\* fail and the file stays.)
C18_RegularFileRemoved ==
    (last.op = "safe_rmtree"
       /\ LStat(last.before, last.path).ok
       /\ last.before[LStat(last.before, last.path).at].kind = "file"
       /\ ~Dangerous(last.before, last.path))
      => ~Exists(fs, last.path)

\* C19: with an anvil.json that cannot be parsed, detect does not raise and
\* returns what it returns for the same directory without the manifest.
\* (Violated: the error of json.load leaves detect.)
C19_MalformedManifestSkipped ==
    (plan.ran /\ "anvil.json" \in srcdir.markers /\ ~srcdir.manifest.ok) =>
        /\ ~plan.out.raised
        /\ plan.out = Detect([srcdir EXCEPT !.markers = @ \ {"anvil.json"}])

\* the dependencies the manifest in the build directory lists
ListedDependencies ==
    IF Exists(fs, build_path \o <<nmanifest>>)
       /\ "dependencies" \in DOMAIN fs[Resolve(fs, build_path \o <<nmanifest>>)].doc
    THEN fs[Resolve(fs, build_path \o <<nmanifest>>)].doc.dependencies
    ELSE <<>>

\* C20: when the steps of a package whose manifest lists dependencies have
\* run, forge has been entered for every listed name, in list order.
\* (Violated: forge never reads the key and never calls itself.)
C20_DependenciesForgedFirst ==
    (At("link") /\ ListedDependencies # <<>>) =>
        /\ Len(last.forged) >= 1 + Len(ListedDependencies)
        /\ \A i \in 1..Len(ListedDependencies) :
              last.forged[1 + i] = ListedDependencies[i]

(***************************************************************************)
(* SpecEnv: the environment of the build steps on POSIX.  A flags variable *)
(* is a sequence of words, an unset variable the empty text.               *)
(***************************************************************************)
fPIC == "-fPIC"

HasWord(flags, w) == \E i \in 1..Len(flags) : flags[i] = w

\* the values of ANVIL_FORCE_PIC that request the flag
PicTruthy == {<<"1">>, <<"t", "r", "u", "e">>, <<"T", "r", "u", "e">>, <<"T", "R", "U", "E">>}

\* default_build_env(force_pic_override=...): CFLAGS and CXXFLAGS of the result
DefaultBuildEnv(environ, os, force_pic_override) ==
    LET force_pic == IF force_pic_override # "None" THEN force_pic_override = "True"
                     ELSE Strip(environ.ANVIL_FORCE_PIC) \in PicTruthy
        with(flags) == IF HasWord(flags, fPIC) THEN flags ELSE Append(flags, fPIC)
    IN IF os # "nt" /\ force_pic
       THEN [environ EXCEPT !.CFLAGS = with(@), !.CXXFLAGS = with(@)]
       ELSE environ

\* forge: the command-line argument before the metadata of the plan
ForcePicOverride(force_pic, metadata_pic) ==
    IF force_pic # "None" THEN force_pic ELSE metadata_pic

\* main: what argparse stores for --force-pic (action='store_true')
ArgsForcePic(given) == IF given THEN "True" ELSE "False"

\* the environments and manifests a forge can start with
Environs ==
    [ANVIL_FORCE_PIC : {<<>>, <<"1">>, <<"0">>, <<" ", "T", "R", "U", "E">>},
     CFLAGS : {<<>>, <<"-O2">>, <<"-O2", fPIC>>},
     CXXFLAGS : {<<>>, <<"-O2">>}]

EnvInit ==
    /\ \E e \in Environs, m \in {"None", "True", "False"} :
          last = [op |-> "none", environ |-> e, manifest |-> m]
    /\ fs = <<>>
    /\ calls = 0
    /\ os_name = "posix"
    /\ UrlIdle
    /\ IndexIdle
    /\ DiagIdle
    /\ DetIdle

EnvFrame == <<urlVars, ixVars, diagVars, detVars, fs, os_name>>

\* forge(target, force_pic=...) up to the build steps: the call as last
\* records it
BuiltEnv(op, given, force_pic) ==
    [op |-> op, environ |-> last.environ, manifest |-> last.manifest, given |-> given,
     build_env |-> DefaultBuildEnv(last.environ, os_name,
                                   ForcePicOverride(force_pic, last.manifest))]

\* `anvil forge <target> [--force-pic]`
MainForge(given) ==
    /\ calls = 0
    /\ calls' = 1
    /\ last' = BuiltEnv("main", given, ArgsForcePic(given))
    /\ UNCHANGED EnvFrame

\* Anvil().forge(target, force_pic=...) called from Python
ApiForge(force_pic) ==
    /\ calls = 0
    /\ calls' = 1
    /\ last' = BuiltEnv("forge", force_pic = "True", force_pic)
    /\ UNCHANGED EnvFrame

EnvNext ==
    \/ \E given \in BOOLEAN : MainForge(given)
    \/ \E force_pic \in {"None", "True", "False"} : ApiForge(force_pic)

SpecEnv == EnvInit /\ [][EnvNext]_vars

\* the choice in the order flag, manifest, environment variable
EffectiveChoice ==
    IF last.given THEN TRUE
    ELSE IF last.manifest # "None" THEN last.manifest = "True"
    ELSE Strip(last.environ.ANVIL_FORCE_PIC) \in PicTruthy

\* C21: for a forge started from the command line, -fPIC is in CFLAGS and
\* CXXFLAGS of the steps' environment exactly when the effective choice
\* (flag, else manifest, else ANVIL_FORCE_PIC, else false) is true.
\* (Violated: without the flag argparse stores False, which forge takes as
\* an explicit choice; manifest and environment variable are never read.)
C21_ForcePicPrecedence ==
    last.op = "main" =>
        ((HasWord(last.build_env.CFLAGS, fPIC) /\ HasWord(last.build_env.CXXFLAGS, fPIC))
           <=> EffectiveChoice)

\* C22: whatever add_local and submit calls were made on the bootstrapped
\* store, no two records hold the same normalized_url.
\* (Violated: add_local looks up the normalized URL, which has_url
\* normalizes once more; for a URL ending in .git.git the record it wrote
\* itself is not found and the same URL is inserted under a second name.)
C22_NoDuplicateNormalizedUrl ==
    \A n \in DOMAIN db, m \in DOMAIN db : db[n].norm = db[m].norm => n = m

\* C26: for the URL of the last add_local or submit call, normalizing the
\* normalized form changes nothing, and has_url answers the same for the URL
\* and for its normalized form.
\* (Violated: of https://gh.io/o/r.git.git one .git is stripped per pass.)
C26_NormalizeIdempotent ==
    (ixlast.op # "none" /\ ixlast.url # <<>>) =>
        /\ Norm(Norm(ixlast.url)) = Norm(ixlast.url)
        /\ HasUrl(db, Norm(ixlast.url)) <=> HasUrl(db, ixlast.url)

\* the record matches the URL the way has_url compares them
Matches(row, url) ==
    \/ row.norm # <<>> /\ row.norm = Norm(url)
    \/ row.url # <<>> /\ Norm(row.url) = Norm(url)

\* C27 as stated: once has_url(u) is true it stays true over every add_local
\* and submit call.
C27_IndexOnlyGrows ==
    [][\A u \in IndexUrls : HasUrl(db, u) => HasUrl(db', u)]_vars

\* C27 amended: once has_url(u) is true it stays true over every add_local
\* and submit call made under a name that no record matching u carries (the
\* store is keyed by name: an insert under the name of a record replaces it).
C27_IndexGrowsExceptReplacedName ==
    [][db' # db =>
         \A u \in IndexUrls :
            (HasUrl(db, u) /\ \A n \in DOMAIN db : Matches(db[n], u) => n # ixlast'.name)
               => HasUrl(db', u)]_vars

\* a submit inserted a record under a new name beside the seed and another
\* record, which are both still found
C27_Witness ==
    /\ ixlast.op = "submit" /\ ixlast.outcome = "inserted"
    /\ Cardinality(DOMAIN db) >= 3
    /\ HasUrl(db, SeedUrl)
    /\ \E n \in DOMAIN db \ {SeedName, ixlast.name} : HasUrl(db, db[n].url)

UrlX == <<"h", "t", "t", "p", "s", ":", "/", "/", "g", "h", ".", "i", "o", "/", "o", "/", "x", ".", "g", "i", "t">>

RaceTargets == {TargetX, UrlX}

RaceInit ==
    /\ fs = WithRemote(AnvilBase, RemoteG)
    /\ os_name \in {"posix", "nt"}
    /\ last = NoOp
    /\ calls = 0
    /\ IndexIdle
    /\ UrlIdle
    /\ DiagIdle
    /\ DetIdle

Started(r) == "other" \in DOMAIN r

Alone(r) == [k \in DOMAIN r \ {"other"} |-> r[k]]

\* the first process enters forge(target)
FirstForge(target) ==
    /\ calls = 0
    /\ calls' = 1
    /\ fs' = SetupDirs(fs)
    /\ last' = [op |-> "forge", pc |-> "classify", target |-> target,
                check_release |-> FALSE, auto_submit |-> FALSE,
                before |-> fs, c |-> NoClass, steps |-> <<>>, binaries |-> <<>>,
                submit |-> "not entered", outcome |-> "running",
                forged |-> <<target>>]
    /\ UNCHANGED <<db, os_name, ForgeFrame>>

\* the second process enters forge(target), wherever the first has got to
SecondForge(target) ==
    /\ calls = 1
    /\ calls' = 2
    /\ fs' = SetupDirs(fs)
    /\ last' = [op |-> "forge", pc |-> "classify", target |-> target,
                check_release |-> FALSE, auto_submit |-> FALSE,
                before |-> fs, c |-> NoClass, steps |-> <<>>, binaries |-> <<>>,
                submit |-> "not entered", outcome |-> "running",
                forged |-> <<target>>, other |-> last]
    /\ UNCHANGED <<db, os_name, ForgeFrame>>

\* the scheduler runs the other process
Switch ==
    /\ Started(last)
    /\ last.other.pc # "done"
    /\ last' = [other |-> Alone(last)] @@ last.other
    /\ UNCHANGED <<fs, db, calls, os_name, ForgeFrame>>

RaceNext ==
    \/ \E target \in RaceTargets : FirstForge(target)
    \/ \E target \in RaceTargets : SecondForge(target)
    \/ Switch
    \/ \E net \in {"none"} : ForgeClassify(net)
    \/ ForgeBuildDir
    \/ \E clone \in {"ok", "fail"} : ForgeFetch(clone)
    \/ ForgeDetect
    \/ ForgePrefix
    \/ ForgeSteps
    \/ ForgeLink
    \/ \E failure \in {NoFailure} : ForgeCleanup(failure)

SpecRace == RaceInit /\ [][RaceNext]_vars

\* the invocation r has fetched its sources and not yet cleaned up, and
\* works on build/<name> and opt/<name>
Using(r, name) ==
    /\ r.op = "forge"
    /\ r.pc \in {"detect", "prefix", "steps", "link", "cleanup"}
    /\ r.c.name = name

\* C25: two invocations of forge for one package name are not kept apart:
\* an invocation whose turn it is to prepare build/<name> does so although
\* the other has fetched its sources there and has not yet cleaned up, and
\* what the other had in build/<name> is gone.
C25_NotMutuallyExcluded ==
    [][(/\ Started(last)
        /\ At("build dir")
        /\ Using(last.other, last.c.name)
        /\ last'.pc = "fetch")
       => /\ last'.other = last.other
          /\ Children(fs', build_path) = {}]_vars

\* one invocation has just wiped build/x and made it anew, and the sources
\* the other had fetched into it are gone while the other has not finished
C25_Witness ==
    /\ Started(last)
    /\ At("fetch")
    /\ Using(last.other, last.c.name)
    /\ Children(fs, build_path) = {}


\* the entries under the build root and the install root that belong to
\* other packages than name
OfOtherPackages(f, name) ==
    {q \in DOMAIN f :
        /\ IsUnder(BUILD_DIR, q) \/ IsUnder(INSTALL_DIR, q)
        /\ q \notin {BUILD_DIR, INSTALL_DIR}
        /\ ~IsUnder(BUILD_DIR \o <<name>>, q)
        /\ ~IsUnder(INSTALL_DIR \o <<name>>, q)}

\* C28 as stated: forge works on build/<name> and opt/<name> for a name that
\* is one non-empty path component, and whatever the target, the workspaces
\* and install prefixes of the other packages are as they were before the
\* call.  (Violated: the name of a URL that ends in "/" is empty, build/<name>
\* is the build root and opt/<name> the install root, and both are wiped.)
C28_ForgeTouchesOwnPathsOnly ==
    (last.op = "forge" /\ last.c.kind # "unknown") =>
        /\ last.c.name # <<>>
        /\ last.c.name \notin {<<Dot>>, DotDot}
        /\ \A q \in OfOtherPackages(last.before, last.c.name) :
              q \in DOMAIN fs /\ fs[q] = last.before[q]


\* the entries of the shared bin directory that _link_binaries wrote for a
\* file of a package installed under opt/<pkg>: on nt the shim <file>.bat
\* that starts the file
Published(f, os) ==
    {b \in Children(f, BIN_DIR) :
        /\ os = "nt"
        /\ \E d \in Children(f, INSTALL_DIR) :
              /\ IsDir(f, d)
              /\ \E src \in Candidates(f, d, <<>>, os) :
                    /\ Name(b) = Name(src) \o <<".", "b", "a", "t">>
                    /\ f[b] = Shim(src)}

\* C29 as stated: every entry point that linking published for a binary of a
\* package installed under opt/<pkg> is still in the shared bin directory
\* after housekeeping, whatever the file name of the binary.  (Violated:
\* housekeeping keeps a file only if its stem is the name of an installed
\* package; tool.bat of the package t is removed.)
C29_PublishedEntriesKept ==
    last.op = "housekeeping" =>
        Published(last.before, os_name) \subseteq DOMAIN fs


(***************************************************************************)
(* SpecUninstall: uninstall called on home directories with the packages   *)
(* x, xz and t installed and some of their entries in the shared bin       *)
(* directory.                                                              *)
(***************************************************************************)
nxz == <<"x", "z">>

nz == <<"z">>

PrefixXZ == INSTALL_DIR \o <<nxz>>

RECURSIVE PathText(_)
\* str(path)
PathText(p) ==
    IF p = <<>> THEN <<>>
    ELSE PathText(SubSeq(p, 1, Len(p) - 1)) \o <<Slash>> \o p[Len(p)]

\* needle in hay, for texts
Occurs(needle, hay) ==
    \E i \in 1..(Len(hay) - Len(needle) + 1) : SubSeq(hay, i, i + Len(needle) - 1) = needle

\* the paths a file of the shared bin directory has in its text: the file a
\* shim starts
PathsIn(node) == IF node.to = <<>> THEN <<>> ELSE PathText(node.to)

\* should_remove for one file of the shared bin directory
ShouldRemove(f, bin_file, prefix, os) ==
    IF os = "nt" /\ Lower(Suffix(Name(bin_file))) = <<".", "b", "a", "t">>
    THEN \/ Occurs(PathText(Resolve(f, prefix)), PathsIn(f[Resolve(f, bin_file)]))
         \/ Occurs(PathText(prefix), PathsIn(f[Resolve(f, bin_file)]))
    ELSE IF f[bin_file].kind = "link"
    THEN Occurs(PathText(Resolve(f, prefix)), PathText(Resolve(f, bin_file)))
    ELSE FALSE

\* Anvil.uninstall(name): [f, outcome]
Uninstall(f, name, os) ==
    LET prefix == JoinName(INSTALL_DIR, name)
        removed == {b \in Children(f, BIN_DIR) :
                      IsFile(f, b) /\ ShouldRemove(f, b, prefix, os)}
    IN IF ~Exists(f, prefix) THEN [f |-> f, outcome |-> "not installed"]
       ELSE [f |-> SafeRmtree(Without(f, removed), prefix).f,
             outcome |-> "uninstalled"]

InstalledBase ==
    Merge(Merge(Merge(AnvilBase,
                      Tree({PrefixX, PrefixX \o <<nbin>>}, {PrefixX \o <<nbin, nx>>})),
                Tree({PrefixXZ, PrefixXZ \o <<nbin>>}, {PrefixXZ \o <<nbin, nz>>})),
          Tree({PrefixT, PrefixT \o <<nbin>>}, {PrefixT \o <<nbin, ntool>>}))

\* what the shared bin directory may hold: the shims linking wrote on nt,
\* a symbolic link to a binary, a file of the user
BinEntries ==
    {One(BIN_DIR \o <<nxbat>>, Shim(PrefixX \o <<nbin, nx>>)),
     One(BIN_DIR \o << <<"z", ".", "b", "a", "t">> >>, Shim(PrefixXZ \o <<nbin, nz>>)),
     One(BIN_DIR \o <<ntoolbat>>, Shim(PrefixT \o <<nbin, ntool>>)),
     One(BIN_DIR \o <<nz>>, Link(PrefixXZ \o <<nbin, nz>>)),
     One(BIN_DIR \o <<ny>>, File(TRUE, NoDoc))}

RECURSIVE MergeAll(_, _)
MergeAll(f, set) ==
    IF set = {} THEN f
    ELSE LET e == CHOOSE e \in set : TRUE IN MergeAll(Merge(f, e), set \ {e})

UninstallNames == {nx, nxz, nt, ny}

UninstallInit ==
    /\ fs \in {MergeAll(InstalledBase, some) : some \in SUBSET BinEntries}
    /\ os_name \in {"posix", "nt"}
    /\ last = NoOp
    /\ calls = 0
    /\ IndexIdle
    /\ UrlIdle
    /\ DiagIdle
    /\ DetIdle

CallUninstall(name) ==
    LET r == Uninstall(SetupDirs(fs), name, os_name)
    IN /\ calls < 2
       /\ calls' = calls + 1
       /\ fs' = r.f
       /\ last' = [op |-> "uninstall", name |-> name, before |-> fs, outcome |-> r.outcome]
       /\ UNCHANGED <<os_name, urlVars, ixVars, diagVars, detVars>>

UninstallNext == \E name \in UninstallNames : CallUninstall(name)

SpecUninstall == UninstallInit /\ [][UninstallNext]_vars

\* the entry b of the shared bin directory starts, or is a link to, a file
\* under opt/<name>
PointsInto(f, b, name) ==
    f[b].to # <<>> /\ IsUnder(INSTALL_DIR \o <<name>>, f[b].to)

\* C30 as stated: uninstall(name) removes nothing but opt/<name> and the
\* entries of the shared bin directory that point into opt/<name>: every
\* other install prefix and every other entry is as before, and when
\* opt/<name> does not exist nothing changes.  (Violated: the test is whether
\* the text of opt/<name> occurs in the entry's target, and the text of
\* opt/x occurs in opt/xz/bin/z.)
C30_UninstallRemovesOwnOnly ==
    last.op = "uninstall" =>
        IF ~Exists(last.before, INSTALL_DIR \o <<last.name>>) THEN fs = last.before
        ELSE /\ \A q \in DOMAIN last.before :
                   (/\ IsUnder(INSTALL_DIR, q)
                    /\ ~IsUnder(INSTALL_DIR \o <<last.name>>, q))
                   => q \in DOMAIN fs /\ fs[q] = last.before[q]
             /\ \A b \in Children(last.before, BIN_DIR) :
                   ~PointsInto(last.before, b, last.name)
                   => b \in DOMAIN fs /\ fs[b] = last.before[b]

==============================================================================
